---------------------------- MODULE Spec2Model ----------------------------
(***************************************************************************)
(* A model of the RMSP registry lookup tool:                               *)
(*   src/rmsp_parser.py            RMSPParser (validator, Selenium driver, *)
(*                                 record extractor)                       *)
(*   src/excel_rmsp_processor.py   ExcelRMSPProcessor (date reconciler,    *)
(*                                 batch orchestrator, CLI)                *)
(*   src/rmsp_playwright.py,       the alternate transports and their      *)
(*   src/rmsp_no_chrome.py         extractor parse_search_results          *)
(*                                                                         *)
(* Text.  A Python str is a sequence of symbols.  A symbol is a one        *)
(* character string ("7", " ", "-", ".", LF) or a whole word or phrase     *)
(* that the code only ever tests as a unit ("Maloe predpriyatie").  The    *)
(* Cyrillic literals of the source are written transliterated, because a   *)
(* TLA+ string holds ASCII only:                                           *)
(*   "da" / "net"                   the yes / no flags of the output       *)
(*   "Uvazhaemyj polzovatel"        the "dear user" banner phrase          *)
(*   "ne najdeno", "svedenij"       "nothing found" wording                *)
(*   "Mikropredpriyatie", "Maloe predpriyatie", "Srednee predpriyatie",    *)
(*   "Ne yavlyaetsya subektom MSP"  the four registry categories           *)
(***************************************************************************)
EXTENDS Integers, Sequences, FiniteSets, TLC

VARIABLES
    \* ---- validate_inn called on its own (SpecValidate)
    inn_arg,        \* the argument of validate_inn
    inn_ret,        \* what validate_inn returned
    fn_pc,          \* "call" before a pure function is applied, "done" after
    \* ---- compare_dates called on its own (SpecDates)
    contract_arg,   \* the contract_date argument of compare_dates
    inclusion_arg,  \* the inclusion_date argument of compare_dates
    cmp_ret,        \* what compare_dates returned
    \* ---- the extractors called on their own (SpecParse)
    document,       \* the document handed to the extractors
    parse_ret,      \* what RMSPParser.parse_results returned
    search_ret,     \* what parse_search_results returned
    \* ---- the batch run (Spec): the CLI, process_excel_file and the lookups
    input_file,        \* the input path and what the disk holds under it
    endpoint_running,  \* the automation endpoint answers on its port
    pc,                \* where the run stands
    df,                \* the dataset in memory
    parser,            \* self.parser: "none" or "ready"
    index,             \* the row the loop is at
    processed_count,
    found_count,
    inn_str,           \* the identifier text handed to search_by_inn
    session,           \* the browser session: "none", "open" or "closed"
    page_source,       \* the document the session shows
    search_result,     \* what search_by_inn returns
    process_result,    \* what process_single_inn returns
    output_file,       \* what has been written, and where
    retval,            \* what process_excel_file returned
    exit_code,         \* the exit code of the CLI
    \* ---- the history of the run
    status_requests,   \* status requests sent to the endpoint
    sessions_opened,   \* sessions opened so far
    navigations,       \* loads of the registry page
    entered,           \* the values typed into the search field
    submits,           \* submissions of the search form
    lookup_end,        \* how the lookup of the row at hand ended
    outcomes,          \* per processed row: how its lookup ended, what it
                       \* returned, the row's record, the markup captured
    sessions,          \* the sessions created at the endpoint: row and state
    trace,             \* the steps the lookups have taken, each with its row
    captured           \* the markup the lookup at hand has captured

validateVars == <<inn_arg, inn_ret>>
datesVars == <<contract_arg, inclusion_arg, cmp_ret>>
parseVars == <<document, parse_ret, search_ret>>

batchVars == <<input_file, endpoint_running, pc, df, parser, index,
               processed_count, found_count, inn_str, session, page_source,
               search_result, process_result, output_file, retval, exit_code>>
driverVars == <<sessions, trace, captured>>
historyVars == <<status_requests, sessions_opened, navigations, entered,
                 submits, lookup_end, outcomes, driverVars>>

vars == <<inn_arg, inn_ret, fn_pc, contract_arg, inclusion_arg, cmp_ret,
          document, parse_ret, search_ret, batchVars, historyVars>>

---------------------------------------------------------------------------
(* Bounds of the model *)

\* the longest run of digits an identifier input is built from
MaxDigits == 7
\* the most blocks of markup a document is built from
MaxBlocks == 2
\* the most rows an input dataset has
MaxRows == 2
\* the most rows of an input sheet that already has the output columns
MaxStaleRows == 1

---------------------------------------------------------------------------
(* Text helpers *)

LF == "\n"
AsciiDigits == {"0", "1", "2", "3", "4", "5", "6", "7", "8", "9"}

\* Python's whitespace, as far as str.strip() and \s meet it here
Whitespace == {" ", LF, "\t"}

\* s with every occurrence of symbol c removed: str.replace(c, '')
RECURSIVE Remove(_, _)
Remove(s, c) ==
    IF s = <<>> THEN <<>>
    ELSE IF Head(s) = c THEN Remove(Tail(s), c)
         ELSE <<Head(s)>> \o Remove(Tail(s), c)

\* s without its leading whitespace
RECURSIVE LStrip(_)
LStrip(s) ==
    IF s = <<>> THEN <<>>
    ELSE IF Head(s) \in Whitespace THEN LStrip(Tail(s)) ELSE s

\* s without its trailing whitespace
RECURSIVE RStrip(_)
RStrip(s) ==
    IF s = <<>> THEN <<>>
    ELSE IF s[Len(s)] \in Whitespace THEN RStrip(SubSeq(s, 1, Len(s) - 1)) ELSE s

\* str.strip()
StrStrip(s) == RStrip(LStrip(s))

\* every symbol of s[from..to] is matched by the regex class \d
DigitsAt(s, from, to) ==
    /\ to <= Len(s)
    /\ \A i \in from..to : s[i] \in AsciiDigits

\* re `$` (no MULTILINE): the end of the string, or just before a line feed
\* that ends the string
ReDollarAt(s, pos) ==
    \/ pos = Len(s) + 1
    \/ pos = Len(s) /\ s[pos] = LF

---------------------------------------------------------------------------
(* Identifier Validator: RMSPParser.validate_inn, and the validate_inn of  *)
(* rmsp_playwright.py and rmsp_no_chrome.py, which are the same code.      *)
(* Python returns `str or False`; here a record: accepted = FALSE is the   *)
(* value False, accepted = TRUE carries the returned string.               *)

InnRejected == [accepted |-> FALSE, inn |-> <<>>]
InnAccepted(s) == [accepted |-> TRUE, inn |-> s]

\* re.match(r'^\d{10}$|^\d{12}$', s)
InnPatternMatches(s) ==
    \/ DigitsAt(s, 1, 10) /\ ReDollarAt(s, 11)
    \/ DigitsAt(s, 1, 12) /\ ReDollarAt(s, 13)

validate_inn(inn) ==
    IF inn = <<>> THEN InnRejected
    ELSE LET cleaned == Remove(Remove(inn, " "), "-")
         IN  IF ~InnPatternMatches(cleaned) THEN InnRejected
             ELSE InnAccepted(cleaned)

\* `not validated_inn`
InnFalsy(v) == ~v.accepted \/ v.inn = <<>>

\* validate_inn's variables while another specification runs
ValidateIdle == inn_arg = <<>> /\ inn_ret = InnRejected

---------------------------------------------------------------------------
(* Date Reconciler: ExcelRMSPProcessor.parse_date and compare_dates.       *)
(*                                                                         *)
(* A cell or argument value is a record: kind "nan" (None, NaN, NaT),      *)
(* "str" (its text), "datetime" and "date" (already structured; date is    *)
(* the calendar date), "other" (a number or any other object).  A parsed   *)
(* date is [none, y, m, d]; none = TRUE is Python's None.                  *)

NoDate == [none |-> TRUE, y |-> 0, m |-> 0, d |-> 0]
Date(y, m, d) == [none |-> FALSE, y |-> y, m |-> m, d |-> d]

NanValue == [kind |-> "nan", text |-> <<>>, date |-> NoDate]
StrValue(t) == [kind |-> "str", text |-> t, date |-> NoDate]
DatetimeValue(dt) == [kind |-> "datetime", text |-> <<>>, date |-> dt]
DateObjValue(dt) == [kind |-> "date", text |-> <<>>, date |-> dt]
OtherValue == [kind |-> "other", text |-> <<>>, date |-> NoDate]

DigitVal(c) ==
    CASE c = "0" -> 0 [] c = "1" -> 1 [] c = "2" -> 2 [] c = "3" -> 3
      [] c = "4" -> 4 [] c = "5" -> 5 [] c = "6" -> 6 [] c = "7" -> 7
      [] c = "8" -> 8 [] c = "9" -> 9 [] OTHER -> 0

\* int() of a run of digits
RECURSIVE ToInt(_)
ToInt(s) ==
    IF s = <<>> THEN 0
    ELSE 10 * ToInt(SubSeq(s, 1, Len(s) - 1)) + DigitVal(s[Len(s)])

\* One piece of a regular expression: its alternatives in the order the
\* regex engine tries them, each a sequence of character classes.  "%d",
\* "%m", "%Y", "%y" are what _strptime compiles the directives to; the rest
\* are the date pieces of the extractors' patterns; any other piece is a
\* literal symbol.
Digits19 == AsciiDigits \ {"0"}
PieceAlts(piece) ==
    CASE piece = "%d" -> << <<{"3"}, {"0", "1"}>>, <<{"1", "2"}, AsciiDigits>>,
                            <<{"0"}, Digits19>>, <<Digits19>>, <<{" "}, Digits19>> >>
      [] piece = "%m" -> << <<{"1"}, {"0", "1", "2"}>>, <<{"0"}, Digits19>>,
                            <<Digits19>> >>
      [] piece = "%Y" -> << <<AsciiDigits, AsciiDigits, AsciiDigits, AsciiDigits>> >>
      [] piece = "%y" -> << <<AsciiDigits, AsciiDigits>> >>
      [] piece = "\\d{1,2}" -> << <<AsciiDigits, AsciiDigits>>, <<AsciiDigits>> >>
      [] piece = "\\d{2,4}" -> << <<AsciiDigits, AsciiDigits, AsciiDigits, AsciiDigits>>,
                                  <<AsciiDigits, AsciiDigits, AsciiDigits>>,
                                  <<AsciiDigits, AsciiDigits>> >>
      [] piece = "\\d{2}" -> << <<AsciiDigits, AsciiDigits>> >>
      [] piece = "\\d{4}" -> << <<AsciiDigits, AsciiDigits, AsciiDigits, AsciiDigits>> >>
      [] piece = "[.\\-/]" -> << <<{".", "-", "/"}>> >>
      [] OTHER -> << <<{piece}>> >>

\* the alternative alt matches s at pos
AltMatchesAt(alt, s, pos) ==
    /\ pos + Len(alt) - 1 <= Len(s)
    /\ \A k \in 1..Len(alt) : s[pos + k - 1] \in alt[k]

NoMatch == [ok |-> FALSE, end |-> 0, caps |-> <<>>]

\* re.match of the pieces fmt[g..] against s from pos, with backtracking
\* over each piece's alternatives (from alternative a on); caps collects
\* <<piece, matched text>> for the pieces passed.
RECURSIVE ReMatchFrom(_, _, _, _, _, _)
ReMatchFrom(fmt, g, a, s, pos, caps) ==
    IF g > Len(fmt) THEN [ok |-> TRUE, end |-> pos, caps |-> caps]
    ELSE LET alts == PieceAlts(fmt[g])
         IN  IF a > Len(alts) THEN NoMatch
             ELSE IF AltMatchesAt(alts[a], s, pos)
                  THEN LET n == Len(alts[a])
                           rest == ReMatchFrom(fmt, g + 1, 1, s, pos + n,
                                       Append(caps, <<fmt[g], SubSeq(s, pos, pos + n - 1)>>))
                       IN  IF rest.ok THEN rest
                           ELSE ReMatchFrom(fmt, g, a + 1, s, pos, caps)
                  ELSE ReMatchFrom(fmt, g, a + 1, s, pos, caps)

\* the text a directive captured (the last one, as a Python groupdict)
Captured(caps, dir) ==
    LET idx == {i \in 1..Len(caps) : caps[i][1] = dir}
    IN  IF idx = {} THEN <<>>
        ELSE caps[CHOOSE i \in idx : \A j \in idx : j <= i][2]

IsLeap(y) == (y % 4 = 0) /\ ((y % 100 # 0) \/ (y % 400 = 0))

DaysInMonth(y, m) ==
    CASE m \in {1, 3, 5, 7, 8, 10, 12} -> 31
      [] m \in {4, 6, 9, 11} -> 30
      [] OTHER -> IF IsLeap(y) THEN 29 ELSE 28

\* datetime.strptime(s, fmt).date(); none = TRUE stands for ValueError
strptime(s, fmt) ==
    LET mt == ReMatchFrom(fmt, 1, 1, s, 1, <<>>)
    IN  IF ~mt.ok THEN NoDate                       \* does not match format
        ELSE IF mt.end # Len(s) + 1 THEN NoDate     \* unconverted data remains
        ELSE LET yy  == ToInt(Captured(mt.caps, "%y"))
                 year == IF "%Y" \in {fmt[i] : i \in 1..Len(fmt)}
                         THEN ToInt(Captured(mt.caps, "%Y"))
                         ELSE IF yy <= 68 THEN 2000 + yy ELSE 1900 + yy
                 month == ToInt(RStrip(LStrip(Captured(mt.caps, "%m"))))
                 day == ToInt(RStrip(LStrip(Captured(mt.caps, "%d"))))
             IN  IF year < 1 \/ day > DaysInMonth(year, month) THEN NoDate
                 ELSE Date(year, month, day)

\* date_formats without its first format, dd.mm.yyyy
date_formats_no_dotted ==
    << <<"%d", "/", "%m", "/", "%Y">>,
       <<"%Y", "-", "%m", "-", "%d">>,
       <<"%d", "-", "%m", "-", "%Y">>,
       <<"%d", ".", "%m", ".", "%y">>,
       <<"%d", "/", "%m", "/", "%y">> >>

date_formats ==
    << <<"%d", ".", "%m", ".", "%Y">>,
       <<"%d", "/", "%m", "/", "%Y">>,
       <<"%Y", "-", "%m", "-", "%d">>,
       <<"%d", "-", "%m", "-", "%Y">>,
       <<"%d", ".", "%m", ".", "%y">>,
       <<"%d", "/", "%m", "/", "%y">> >>

\* the loop over date_formats from format k on: the first that parses
RECURSIVE TryFormats(_, _, _)
TryFormats(formats, k, text) ==
    IF k > Len(formats) THEN NoDate
    ELSE LET r == strptime(StrStrip(text), formats[k])
         IN  IF ~r.none THEN r ELSE TryFormats(formats, k + 1, text)

parse_date(date_value) ==
    IF date_value.kind = "nan" \/ (date_value.kind = "str" /\ date_value.text = <<>>)
    THEN NoDate
    ELSE IF date_value.kind \in {"datetime", "date"} THEN date_value.date
    ELSE IF date_value.kind = "str" THEN TryFormats(date_formats, 1, date_value.text)
    ELSE NoDate

\* a < b on datetime.date
DateLess(a, b) ==
    \/ a.y < b.y
    \/ a.y = b.y /\ a.m < b.m
    \/ a.y = b.y /\ a.m = b.m /\ a.d < b.d

\* the three values compare_dates returns
DA == <<"da">>
NET == <<"net">>
EMPTY == <<>>

\* compare_dates with the test `<` written as `<=`
compare_dates_le(contract_date, inclusion_date) ==
    LET contract_parsed == parse_date(contract_date)
        inclusion_parsed == parse_date(inclusion_date)
    IN  IF contract_parsed.none \/ inclusion_parsed.none THEN EMPTY
        ELSE IF ~DateLess(inclusion_parsed, contract_parsed) THEN DA
        ELSE NET

compare_dates(contract_date, inclusion_date) ==
    LET contract_parsed == parse_date(contract_date)
        inclusion_parsed == parse_date(inclusion_date)
    IN  IF contract_parsed.none \/ inclusion_parsed.none THEN EMPTY
        ELSE IF DateLess(contract_parsed, inclusion_parsed) THEN DA
        ELSE NET

\* compare_dates' variables while another specification runs
DatesIdle == contract_arg = NanValue /\ inclusion_arg = NanValue /\ cmp_ret = EMPTY

---------------------------------------------------------------------------
(* Documents.  BeautifulSoup(html_content, 'html.parser') is a tree; a     *)
(* node is a record: a text node (tag "#text", its text) or an element     *)
(* (tag, class, href, kids).  A node is addressed by its path, the child   *)
(* indices from the root; document order is the preorder of the paths.     *)

TextNode(t) == [tag |-> "#text", class |-> "", href |-> <<>>, text |-> t, kids |-> <<>>]
Elem(tag, class, href, kids) ==
    [tag |-> tag, class |-> class, href |-> href, text |-> <<>>, kids |-> kids]
Soup(kids) == Elem("[document]", "", <<>>, kids)

RECURSIVE NodeAt(_, _)
NodeAt(node, path) ==
    IF path = <<>> THEN node ELSE NodeAt(node.kids[Head(path)], Tail(path))

\* paths (extending prefix) of the descendants of node that lie under its
\* kids i.., in document order
RECURSIVE DescPaths(_, _, _)
DescPaths(node, prefix, i) ==
    IF i > Len(node.kids) THEN <<>>
    ELSE LET p == Append(prefix, i)
         IN  <<p>> \o DescPaths(node.kids[i], p, 1) \o DescPaths(node, prefix, i + 1)

\* tag.descendants
Descendants(soup, path) == DescPaths(NodeAt(soup, path), path, 1)

Parent(path) == SubSeq(path, 1, Len(path) - 1)

\* tag.find_all(tags)
find_all(soup, path, tags) ==
    LET Wanted(p) == NodeAt(soup, p).tag \in tags
    IN  SelectSeq(Descendants(soup, path), Wanted)

RECURSIVE Concat(_)
Concat(seqs) == IF seqs = <<>> THEN <<>> ELSE Head(seqs) \o Concat(Tail(seqs))

\* the text nodes under a node, in document order
StringPaths(soup, path) ==
    LET IsText(p) == NodeAt(soup, p).tag = "#text"
    IN  SelectSeq(Descendants(soup, path), IsText)

\* tag.get_text(): the strings joined as they are
get_text(soup, path) ==
    LET ps == StringPaths(soup, path)
    IN  Concat([i \in 1..Len(ps) |-> NodeAt(soup, ps[i]).text])

\* tag.get_text(strip=True): each string stripped, then joined with ''
get_text_strip(soup, path) ==
    LET ps == StringPaths(soup, path)
    IN  Concat([i \in 1..Len(ps) |-> StrStrip(NodeAt(soup, ps[i]).text)])

\* tag.string: the single string of a tag with one child, else None
RECURSIVE TagString(_)
TagString(node) ==
    IF node.tag = "#text" THEN [none |-> FALSE, text |-> node.text]
    ELSE IF Len(node.kids) = 1 THEN TagString(node.kids[1])
    ELSE [none |-> TRUE, text |-> <<>>]

\* pat in text
Contains(text, pat) ==
    \E i \in 1..(Len(text) - Len(pat) + 1) : SubSeq(text, i, i + Len(pat) - 1) = pat

\* str.lower() of one symbol
LowerSym(c) ==
    CASE c = "NE NAJDENO" -> "ne najdeno"
      [] c = "Ne najdeno" -> "ne najdeno"
      [] c = "SVEDENIJ" -> "svedenij"
      [] c = "Uvazhaemyj polzovatel" -> "uvazhaemyj polzovatel"
      [] c = "Mikropredpriyatie" -> "mikropredpriyatie"
      [] c = "Maloe predpriyatie" -> "maloe predpriyatie"
      [] c = "Srednee predpriyatie" -> "srednee predpriyatie"
      [] c = "Ne yavlyaetsya subektom MSP" -> "ne yavlyaetsya subektom msp"
      [] c = "Data" -> "data"
      [] c = "Isklyuchen" -> "isklyuchen"
      [] c = "Ne ukazana" -> "ne ukazana"
      [] c = "PUSTO" -> "pusto"
      [] c = "RSMP_CATEGORY" -> "rsmp_category"
      [] c = "INN" -> "inn"
      [] c = "OGRN" -> "ogrn"
      [] c = "OOO Romashka" -> "ooo romashka"
      [] c = ".XLSX" -> ".xlsx"
      [] c = ".XLS" -> ".xls"
      [] c = "Ne najdena" -> "ne najdena"
      [] OTHER -> c

Lower(text) == [i \in 1..Len(text) |-> LowerSym(text[i])]

Min(S) == CHOOSE x \in S : \A y \in S : x <= y

\* the first path of a sequence of paths, as an optional value
FirstOf(paths) ==
    IF paths = <<>> THEN [none |-> TRUE, path |-> <<>>]
    ELSE [none |-> FALSE, path |-> paths[1]]

Range(s) == {s[i] : i \in 1..Len(s)}

\* the texts of the strings of a document
Strings(soup) ==
    {NodeAt(soup, p).text : p \in Range(StringPaths(soup, <<>>))}

\* soup.find(string=<pattern>): the first string whose text is one of
\* `matching`, the texts the pattern matches
FindString(soup, matching) ==
    LET Hit(p) == NodeAt(soup, p).text \in matching
    IN  FirstOf(SelectSeq(StringPaths(soup, <<>>), Hit))

\* re.search of pieces in s: the leftmost match
ReSearch(pieces, s) ==
    LET starts == {i \in 1..Len(s) : ReMatchFrom(pieces, 1, 1, s, i, <<>>).ok}
    IN  IF starts = {} THEN [ok |-> FALSE, start |-> 0, end |-> 0]
        ELSE LET i == Min(starts)
             IN  [ok |-> TRUE, start |-> i,
                  end |-> ReMatchFrom(pieces, 1, 1, s, i, <<>>).end]

\* the position after the longest run of symbols of seps from pos on: `[seps]*`
RECURSIVE SkipWhile(_, _, _)
SkipWhile(s, pos, seps) ==
    IF pos <= Len(s) /\ s[pos] \in seps THEN SkipWhile(s, pos + 1, seps) ELSE pos

\* the number of digits from pos on: `\d*`
DigitRunLen(s, pos) == SkipWhile(s, pos, AsciiDigits) - pos

\* re.search(label [seps]* (\d{lo,hi})): the leftmost label that the run of
\* seps and at least lo digits follow; the group is the first hi digits at
\* most.  label is a sequence of symbols.
LabelledNumber(s, label, seps, lo, hi) ==
    LET n == Len(label)
        Ok(i) == /\ SubSeq(s, i, i + n - 1) = label
                 /\ DigitRunLen(s, SkipWhile(s, i + n, seps)) >= lo
        starts == {i \in 1..(Len(s) - n + 1) : Ok(i)}
    IN  IF starts = {} THEN [ok |-> FALSE, group |-> <<>>]
        ELSE LET i == Min(starts)
                 from == SkipWhile(s, i + n, seps)
                 len == IF DigitRunLen(s, from) > hi THEN hi ELSE DigitRunLen(s, from)
             IN  [ok |-> TRUE, group |-> SubSeq(s, from, from + len - 1)]

---------------------------------------------------------------------------
(* Record Extractor: RMSPParser.parse_results, stage by stage *)

EmptyResult ==
    [found |-> FALSE, organization_name |-> <<>>, category |-> <<>>,
     inclusion_date |-> <<>>, exclusion_date |-> <<>>, region |-> <<>>,
     inn |-> <<>>, ogrn |-> <<>>, message |-> <<>>]

DearUser == "Uvazhaemyj polzovatel"
NothingFound == <<"ne najdeno", " ", "svedenij">>
NotSME == <<"Ne yavlyaetsya subektom MSP">>
NoHit == [hit |-> FALSE, message |-> <<>>]

\* classes the pattern alert|warning (re.I) finds
AlertClasses == {"alert", "warning", "alert-warning", "Alert"}
\* lower-case symbols that hold one of 'ne najdeno', 'ne najden', 'otsutstvuet'
NegativeWords == {"ne najdeno", "ne najden", "otsutstvuet"}

\* lines 232-239: a div of class alert/warning whose text has a negative word
NegativeByWarning(soup) ==
    LET IsWarn(p) == /\ NodeAt(soup, p).tag = "div"
                     /\ NodeAt(soup, p).class \in AlertClasses
        block == FirstOf(SelectSeq(Descendants(soup, <<>>), IsWarn))
    IN  IF block.none THEN NoHit
        ELSE LET warning_text == get_text_strip(soup, block.path)
             IN  IF Range(Lower(warning_text)) \cap NegativeWords # {}
                 THEN [hit |-> TRUE, message |-> warning_text]
                 ELSE NoHit

HasDearUser(text) == DearUser \in Range(text)

\* lines 241-250: the first string with the "dear user" phrase, and the text
\* of its parent
NegativeByUserMessage(soup) ==
    LET user_message == FindString(soup, {t \in Strings(soup) : HasDearUser(t)})
    IN  IF user_message.none THEN NoHit
        ELSE LET message_text == get_text_strip(soup, Parent(user_message.path))
             IN  IF Contains(Lower(message_text), NothingFound)
                 THEN [hit |-> TRUE, message |-> message_text]
                 ELSE NoHit

FoundCountLabel == <<"Najdeno zapisej:">>
HasFoundCount(text) ==
    LabelledNumber(text, FoundCountLabel, Whitespace, 1, Len(text)).ok

\* lines 252-259: the counter "Najdeno zapisej: N" with N = 0
NegativeByFoundCount(soup) ==
    LET count_string == FindString(soup, {t \in Strings(soup) : HasFoundCount(t)})
    IN  IF count_string.none THEN NoHit
        ELSE LET t == NodeAt(soup, count_string.path).text
                 count_match == LabelledNumber(t, FoundCountLabel, Whitespace, 1, Len(t))
             IN  IF count_match.ok /\ ToInt(count_match.group) = 0
                 THEN [hit |-> TRUE, message |-> <<"Zapisi ne najdeny">>]
                 ELSE NoHit

LabelSeps == {":"} \cup Whitespace

\* the exclusion-date cell: kept unless empty or the placeholder '-'
ExclusionCell(text, old) == IF text # <<>> /\ text # <<"-">> THEN text ELSE old

\* TableExtraction that does not skip the first row of the table
TableExtraction_first_row(soup, result) ==
    LET tables == find_all(soup, <<>>, {"table"})
    IN  IF tables = <<>> THEN result
        ELSE
        LET rows == find_all(soup, tables[1], {"tr"})
            Cells(r) == find_all(soup, r, {"td", "th"})
            candidates == {k \in 1..Len(rows) : Len(Cells(rows[k])) >= 4}
        IN  IF candidates = {} THEN result
            ELSE
            LET data_row == rows[Min(candidates)]
                cells == Cells(data_row)
                links == find_all(soup, cells[1], {"a"})
                full_row_text == get_text(soup, data_row)
                inn_match == LabelledNumber(full_row_text, <<"INN">>, LabelSeps, 10, 12)
                ogrn_match == LabelledNumber(full_row_text, <<"OGRN">>, LabelSeps, 13, 15)
            IN  [result EXCEPT
                    !.found = TRUE,
                    !.organization_name =
                        IF links # <<>> THEN get_text_strip(soup, links[1])
                        ELSE get_text_strip(soup, cells[1]),
                    !.category = get_text_strip(soup, cells[2]),
                    !.region = get_text_strip(soup, cells[3]),
                    !.inclusion_date = get_text_strip(soup, cells[4]),
                    !.exclusion_date =
                        IF Len(cells) > 4
                        THEN ExclusionCell(get_text_strip(soup, cells[5]), @)
                        ELSE @,
                    !.inn = IF inn_match.ok THEN inn_match.group ELSE @,
                    !.ogrn = IF ogrn_match.ok THEN ogrn_match.group ELSE @]

\* lines 261-316: the first table, the first row after the first one with
\* at least four cells
TableExtraction(soup, result) ==
    LET tables == find_all(soup, <<>>, {"table"})
    IN  IF tables = <<>> THEN result
        ELSE
        LET rows == find_all(soup, tables[1], {"tr"})
            Cells(r) == find_all(soup, r, {"td", "th"})
            candidates == {k \in 2..Len(rows) : Len(Cells(rows[k])) >= 4}
        IN  IF candidates = {} THEN result
            ELSE
            LET data_row == rows[Min(candidates)]
                cells == Cells(data_row)
                links == find_all(soup, cells[1], {"a"})
                full_row_text == get_text(soup, data_row)
                inn_match == LabelledNumber(full_row_text, <<"INN">>, LabelSeps, 10, 12)
                ogrn_match == LabelledNumber(full_row_text, <<"OGRN">>, LabelSeps, 13, 15)
            IN  [result EXCEPT
                    !.found = TRUE,
                    !.organization_name =
                        IF links # <<>> THEN get_text_strip(soup, links[1])
                        ELSE get_text_strip(soup, cells[1]),
                    !.category = get_text_strip(soup, cells[2]),
                    !.region = get_text_strip(soup, cells[3]),
                    !.inclusion_date = get_text_strip(soup, cells[4]),
                    !.exclusion_date =
                        IF Len(cells) > 4
                        THEN ExclusionCell(get_text_strip(soup, cells[5]), @)
                        ELSE @,
                    !.inn = IF inn_match.ok THEN inn_match.group ELSE @,
                    !.ogrn = IF ogrn_match.ok THEN ogrn_match.group ELSE @]

\* the loop of lines 322-333 over the detail blocks k..
RECURSIVE DetailFold(_, _, _, _)
DetailFold(soup, blocks, k, result) ==
    IF k > Len(blocks) THEN result
    ELSE LET text == get_text(soup, blocks[k])
             inn_match == LabelledNumber(text, <<"INN", ":">>, Whitespace, 10, 12)
             ogrn_match == LabelledNumber(text, <<"OGRN", ":">>, Whitespace, 13, 15)
             r1 == IF Contains(text, <<"INN", ":">>) /\ result.inn = <<>> /\ inn_match.ok
                   THEN [result EXCEPT !.inn = inn_match.group] ELSE result
             r2 == IF Contains(text, <<"OGRN", ":">>) /\ r1.ogrn = <<>> /\ ogrn_match.ok
                   THEN [r1 EXCEPT !.ogrn = ogrn_match.group] ELSE r1
         IN  DetailFold(soup, blocks, k + 1, r2)

\* lines 318-333: INN and OGRN from the div blocks whose string names them
DetailBlocks(soup, result) ==
    IF ~result.found THEN result
    ELSE LET Labelled(p) ==
                 LET str == TagString(NodeAt(soup, p))
                 IN  ~str.none /\ Range(str.text) \cap {"INN", "OGRN"} # {}
         IN  DetailFold(soup, SelectSeq(find_all(soup, <<>>, {"div"}), Labelled), 1, result)

name_selectors ==
    <<"a[href*=view]", ".organization-name", ".company-name", "td:first-child a">>

\* the element at path is the first element child of its parent
IsFirstChild(soup, path) ==
    \A j \in 1..(path[Len(path)] - 1) :
        NodeAt(soup, Parent(path)).kids[j].tag = "#text"

\* the element at path is matched by the CSS selector
SelectorMatches(soup, selector, path) ==
    LET node == NodeAt(soup, path)
    IN  CASE selector = "a[href*=view]" ->
                node.tag = "a" /\ "view" \in Range(node.href)
          [] selector = ".organization-name" -> node.class = "organization-name"
          [] selector = ".company-name" -> node.class = "company-name"
          [] selector = "td:first-child a" ->
                /\ node.tag = "a"
                /\ \E k \in 1..(Len(path) - 1) :
                       /\ NodeAt(soup, SubSeq(path, 1, k)).tag = "td"
                       /\ IsFirstChild(soup, SubSeq(path, 1, k))
          [] OTHER -> FALSE

\* soup.select_one(selector)
select_one(soup, selector) ==
    LET Hit(p) == SelectorMatches(soup, selector, p)
    IN  FirstOf(SelectSeq(Descendants(soup, <<>>), Hit))

Max(S) == CHOOSE x \in S : \A y \in S : y <= x

\* SelectorFallback that sets found only when the element has a row of
\* four cells, and the name in any case
SelectorFallback_found_with_row(soup, result) ==
    IF result.found THEN result
    ELSE
    LET hits == {k \in 1..Len(name_selectors) : ~select_one(soup, name_selectors[k]).none}
    IN  IF hits = {} THEN result
        ELSE
        LET el == select_one(soup, name_selectors[Min(hits)]).path
            r1 == [result EXCEPT !.organization_name = get_text_strip(soup, el)]
            trs == {k \in 1..(Len(el) - 1) : NodeAt(soup, SubSeq(el, 1, k)).tag = "tr"}
        IN  IF trs = {} THEN r1
            ELSE LET cells == find_all(soup, SubSeq(el, 1, Max(trs)), {"td"})
                 IN  IF Len(cells) < 4 THEN r1
                     ELSE [r1 EXCEPT
                             !.found = TRUE,
                             !.category = get_text_strip(soup, cells[2]),
                             !.region = get_text_strip(soup, cells[3]),
                             !.inclusion_date = get_text_strip(soup, cells[4]),
                             !.exclusion_date =
                                 IF Len(cells) > 4
                                 THEN ExclusionCell(get_text_strip(soup, cells[5]), @)
                                 ELSE @]

\* lines 336-366: the first selector that finds an element names the
\* organization; its row, if it has one with four td cells, gives the rest
SelectorFallback(soup, result) ==
    IF result.found THEN result
    ELSE
    LET hits == {k \in 1..Len(name_selectors) : ~select_one(soup, name_selectors[k]).none}
    IN  IF hits = {} THEN result
        ELSE
        LET el == select_one(soup, name_selectors[Min(hits)]).path
            r1 == [result EXCEPT !.found = TRUE,
                                 !.organization_name = get_text_strip(soup, el)]
            trs == {k \in 1..(Len(el) - 1) : NodeAt(soup, SubSeq(el, 1, k)).tag = "tr"}
        IN  IF trs = {} THEN r1
            ELSE LET cells == find_all(soup, SubSeq(el, 1, Max(trs)), {"td"})
                 IN  IF Len(cells) < 4 THEN r1
                     ELSE [r1 EXCEPT
                             !.category = get_text_strip(soup, cells[2]),
                             !.region = get_text_strip(soup, cells[3]),
                             !.inclusion_date = get_text_strip(soup, cells[4]),
                             !.exclusion_date =
                                 IF Len(cells) > 4
                                 THEN ExclusionCell(get_text_strip(soup, cells[5]), @)
                                 ELSE @]

\* the category phrases tested from the last to the first
category_keywords_reversed ==
    <<"Ne yavlyaetsya subektom MSP", "Srednee predpriyatie", "Maloe predpriyatie",
      "Mikropredpriyatie">>

\* the category phrases in the order lines 376-383 test them
category_keywords ==
    <<"Mikropredpriyatie", "Maloe predpriyatie", "Srednee predpriyatie",
      "Ne yavlyaetsya subektom MSP">>

\* a keyword fallback that asks for a category phrase only, as
\* parse_search_results does
KeywordFallback_no_marker(soup, result) ==
    IF result.found THEN result
    ELSE LET page_text == Range(get_text(soup, <<>>))
             present == {k \in 1..Len(category_keywords) : category_keywords[k] \in page_text}
         IN  IF present # {}
             THEN [result EXCEPT
                     !.found = TRUE,
                     !.organization_name =
                         <<"Organizaciya najdena (trebuetsya utochnenie nazvaniya)">>,
                     !.category = <<category_keywords[Min(present)]>>]
             ELSE result

\* KeywordFallback that runs whether or not the record is found already
KeywordFallback_unguarded(soup, result) ==
    LET page_text == Range(get_text(soup, <<>>))
        present == {k \in 1..Len(category_keywords) : category_keywords[k] \in page_text}
    IN  IF "RSMP_CATEGORY" \in page_text /\ present # {}
        THEN [result EXCEPT
                !.found = TRUE,
                !.organization_name =
                    <<"Organizaciya najdena (trebuetsya utochnenie nazvaniya)">>,
                !.category = <<category_keywords[Min(present)]>>]
        ELSE result

\* lines 368-383: the marker RSMP_CATEGORY and a category phrase in the text
KeywordFallback(soup, result) ==
    IF result.found THEN result
    ELSE LET page_text == Range(get_text(soup, <<>>))
             present == {k \in 1..Len(category_keywords) : category_keywords[k] \in page_text}
         IN  IF "RSMP_CATEGORY" \in page_text /\ present # {}
             THEN [result EXCEPT
                     !.found = TRUE,
                     !.organization_name =
                         <<"Organizaciya najdena (trebuetsya utochnenie nazvaniya)">>,
                     !.category = <<category_keywords[Min(present)]>>]
             ELSE result

\* symbols the pattern isklyuchen[a-ya]* and vybyl[a-ya]* cover (lower case)
IsklyuchenWords == {"isklyuchen", "isklyuchena", "isklyucheniya", "isklyuchenie"}
VybylWords == {"vybyl", "vybyla"}

\* the labels of the five exclusion patterns, in the declared order
exclusion_patterns ==
    << <<{"data"}, {" "}, {"isklyucheniya"}>>,
       <<IsklyuchenWords>>,
       <<{"data"}, {" "}, {"vybytiya"}>>,
       <<VybylWords>>,
       <<{"isklyuchenie"}>> >>

\* (\d{1,2}[.\-/]\d{1,2}[.\-/]\d{2,4})
ExclusionDatePieces == <<"\\d{1,2}", "[.\\-/]", "\\d{1,2}", "[.\\-/]", "\\d{2,4}">>

\* re.search(label [:\s]* (date), text, re.IGNORECASE)
ExclusionSearch(label, text) ==
    LET low == Lower(text)
        DateFrom(i) == SkipWhile(text, i + Len(label), LabelSeps)
        Ok(i) == /\ AltMatchesAt(label, low, i)
                 /\ ReMatchFrom(ExclusionDatePieces, 1, 1, text, DateFrom(i), <<>>).ok
        starts == {i \in 1..Len(text) : Ok(i)}
    IN  IF starts = {} THEN [ok |-> FALSE, group |-> <<>>]
        ELSE LET from == DateFrom(Min(starts))
                 m == ReMatchFrom(ExclusionDatePieces, 1, 1, text, from, <<>>)
             IN  [ok |-> TRUE, group |-> SubSeq(text, from, m.end - 1)]

\* ExclusionRecovery that does not ask for the excluded category
ExclusionRecovery_any_category(soup, result) ==
    IF result.found /\ result.exclusion_date = <<>>
    THEN LET full_page_text == get_text(soup, <<>>)
             hits == {k \in 1..Len(exclusion_patterns) :
                         ExclusionSearch(exclusion_patterns[k], full_page_text).ok}
         IN  IF hits = {} THEN result
             ELSE [result EXCEPT !.exclusion_date =
                      ExclusionSearch(exclusion_patterns[Min(hits)], full_page_text).group]
    ELSE result

\* lines 385-404: for a found record of category NotSME without an
\* exclusion date, the first pattern that matches the document text
ExclusionRecovery(soup, result) ==
    IF result.found /\ result.category = NotSME /\ result.exclusion_date = <<>>
    THEN LET full_page_text == get_text(soup, <<>>)
             hits == {k \in 1..Len(exclusion_patterns) :
                         ExclusionSearch(exclusion_patterns[k], full_page_text).ok}
         IN  IF hits = {} THEN result
             ELSE [result EXCEPT !.exclusion_date =
                      ExclusionSearch(exclusion_patterns[Min(hits)], full_page_text).group]
    ELSE result

parse_results(html_content) ==
    LET soup == html_content
        warning == NegativeByWarning(soup)
        user_message == NegativeByUserMessage(soup)
        count_stage == NegativeByFoundCount(soup)
    IN  IF warning.hit THEN [EmptyResult EXCEPT !.message = warning.message]
        ELSE IF user_message.hit THEN [EmptyResult EXCEPT !.message = user_message.message]
        ELSE IF count_stage.hit THEN [EmptyResult EXCEPT !.message = count_stage.message]
        ELSE ExclusionRecovery(soup,
                 KeywordFallback(soup,
                     SelectorFallback(soup,
                         DetailBlocks(soup,
                             TableExtraction(soup, EmptyResult)))))

---------------------------------------------------------------------------
(* The extractor of the alternate transports: parse_search_results of      *)
(* rmsp_playwright.py; rmsp_no_chrome.py holds the same code.              *)

EmptySearchResult ==
    [found |-> FALSE, category |-> <<"-">>, inclusion_date |-> <<"-">>, message |-> <<>>]

\* the extractors' variables while another specification runs
ParseIdle ==
    /\ document = Soup(<<>>)
    /\ parse_ret = EmptyResult
    /\ search_ret = EmptySearchResult

\* r'\d{2}\.\d{2}\.\d{4}'
date_pattern == <<"\\d{2}", ".", "\\d{2}", ".", "\\d{4}">>

\* the first element of re.findall(date_pattern, text), '' when there is none
FirstDate(text) ==
    LET m == ReSearch(date_pattern, text)
    IN  IF m.ok THEN SubSeq(text, m.start, m.end - 1) ELSE <<>>

parse_search_results(html_content, inn) ==
    LET soup == html_content
        user_message == FindString(soup, {t \in Strings(soup) : HasDearUser(t)})
        negative ==
            /\ ~user_message.none
            /\ Contains(Lower(get_text(soup, Parent(user_message.path))), NothingFound)
        tables == find_all(soup, <<>>, {"table"})
        rows == IF tables = <<>> THEN <<>> ELSE find_all(soup, tables[1], {"tr"})
        Cells(r) == find_all(soup, r, {"td", "th"})
        candidates == {k \in 2..Len(rows) : Len(Cells(rows[k])) >= 4}
        from_table ==
            IF candidates = {} THEN EmptySearchResult
            ELSE LET cells == Cells(rows[Min(candidates)])
                 IN  [EmptySearchResult EXCEPT
                         !.found = TRUE,
                         !.category = get_text_strip(soup, cells[2]),
                         !.inclusion_date = get_text_strip(soup, cells[4])]
        page_text == Range(Lower(get_text(soup, <<>>)))
        by_keyword ==
            IF "mikropredpriyatie" \in page_text
            THEN [from_table EXCEPT !.found = TRUE, !.category = <<"Mikropredpriyatie">>]
            ELSE IF "maloe predpriyatie" \in page_text
            THEN [from_table EXCEPT !.found = TRUE, !.category = <<"Maloe predpriyatie">>]
            ELSE IF "srednee predpriyatie" \in page_text
            THEN [from_table EXCEPT !.found = TRUE, !.category = <<"Srednee predpriyatie">>]
            ELSE from_table
        first_date == FirstDate(get_text(soup, <<>>))
    IN  IF negative
        THEN [EmptySearchResult EXCEPT !.message = <<"Organizaciya ne najdena v reestre">>]
        ELSE IF from_table.found THEN from_table
        ELSE IF by_keyword.found /\ first_date # <<>>
             THEN [by_keyword EXCEPT !.inclusion_date = first_date]
             ELSE by_keyword

---------------------------------------------------------------------------
(* Batch Orchestrator: the pure parts of ExcelRMSPProcessor.               *)
(*                                                                         *)
(* A dataset is [columns, rows]: the column names and, per row, a function *)
(* from the column names to cells.  A cell of an input column is a value   *)
(* record as above (kind "int" added: a whole number, text = its digits);  *)
(* a cell of an output column is a text.                                   *)

IntValue(digits) == [kind |-> "int", text |-> digits, date |-> NoDate]

input_columns == [inn |-> "INN", contract_date |-> "Data zaklyucheniya"]

output_columns ==
    [smsp_robot |-> "SMSP Robot",
     category_robot |-> "Kategoriya Robot",
     inclusion_date_robot |-> "Data vklyucheniya Robot",
     exclusion_date_robot |-> "Data isklyucheniya Robot",
     date_discrepancy_robot |-> "Raskhozhdeniya v datakh Robot"]

OutputColumnNames == {output_columns[k] : k \in DOMAIN output_columns}

NoDataset == [columns |-> {}, rows |-> <<>>]

\* file_path.lower().endswith(('.xlsx', '.xls'))
HasExcelSuffix(path) ==
    path # <<>> /\ Lower(path)[Len(path)] \in {".xlsx", ".xls"}

\* validate_excel_file with the test of the suffix left out
validate_excel_file_exists_only(file) == file.exists

validate_excel_file(file) ==
    IF ~file.exists THEN FALSE
    ELSE IF ~HasExcelSuffix(file.path) THEN FALSE
    ELSE TRUE

\* pd.read_excel(file_path): the sheet, or an exception
load_excel_file(file) ==
    IF file.loadable THEN [none |-> FALSE, df |-> file.sheet]
    ELSE [none |-> TRUE, df |-> NoDataset]

validate_columns(dataset) ==
    LET missing_columns ==
            {input_columns[k] : k \in {"inn", "contract_date"}} \ dataset.columns
    IN  missing_columns = {}

\* a column is added, empty, only if the dataset does not have it yet
add_output_columns(dataset) ==
    LET columns == dataset.columns \cup OutputColumnNames
        Widen(row) == [c \in columns |-> IF c \in DOMAIN row THEN row[c] ELSE <<>>]
    IN  [columns |-> columns,
         rows |-> [i \in 1..Len(dataset.rows) |-> Widen(dataset.rows[i])]]

\* str(value)
PyStr(value) ==
    IF value.kind = "nan" THEN <<"nan">> ELSE value.text

\* pd.isna(inn_value) or str(inn_value).strip() == ''
IsEmptyInn(inn_value) ==
    inn_value.kind = "nan" \/ StrStrip(PyStr(inn_value)) = <<>>

\* the record process_single_inn starts from, and returns unless found
NotFoundRecord ==
    [smsp_robot |-> NET, category_robot |-> <<>>, inclusion_date_robot |-> <<>>,
     exclusion_date_robot |-> <<>>, date_discrepancy_robot |-> <<>>]

\* None as returned by search_by_inn, and a record returned by it
NoSearchResult == [none |-> TRUE, result |-> EmptyResult]
SomeResult(r) == [none |-> FALSE, result |-> r]

\* lines 237-258: the record made of what search_by_inn returned
RecordOf(sr) ==
    IF ~sr.none /\ sr.result.found
    THEN [NotFoundRecord EXCEPT
            !.smsp_robot = DA,
            !.category_robot = sr.result.category,
            !.inclusion_date_robot = sr.result.inclusion_date,
            !.exclusion_date_robot = sr.result.exclusion_date]
    ELSE NotFoundRecord

\* lower-case texts that stand for "no exclusion date"
ExclusionPlaceholders ==
    {<<"ne ukazana">>, <<"ne najdena">>, <<"(pusto)">>, <<"pusto">>}

\* FilledRow with the two dates handed to compare_dates in the other order
FilledRow_dates_swapped(row, result, contract_date) ==
    LET exclusion_date == result.exclusion_date_robot
        kept == IF /\ exclusion_date # <<>>
                   /\ StrStrip(exclusion_date) # <<>>
                   /\ Lower(exclusion_date) \notin ExclusionPlaceholders
                THEN exclusion_date ELSE <<>>
        written == [row EXCEPT
                      ![output_columns.smsp_robot] = result.smsp_robot,
                      ![output_columns.category_robot] = result.category_robot,
                      ![output_columns.inclusion_date_robot] = result.inclusion_date_robot,
                      ![output_columns.exclusion_date_robot] = kept]
    IN  IF result.smsp_robot = DA
        THEN [written EXCEPT ![output_columns.date_discrepancy_robot] =
                 compare_dates(StrValue(result.inclusion_date_robot), contract_date)]
        ELSE written

\* FilledRow with the extracted text compared to the placeholders as it
\* is, without lower()
FilledRow_case_sensitive(row, result, contract_date) ==
    LET exclusion_date == result.exclusion_date_robot
        kept == IF /\ exclusion_date # <<>>
                   /\ StrStrip(exclusion_date) # <<>>
                   /\ exclusion_date \notin ExclusionPlaceholders
                THEN exclusion_date ELSE <<>>
        written == [row EXCEPT
                      ![output_columns.smsp_robot] = result.smsp_robot,
                      ![output_columns.category_robot] = result.category_robot,
                      ![output_columns.inclusion_date_robot] = result.inclusion_date_robot,
                      ![output_columns.exclusion_date_robot] = kept]
    IN  IF result.smsp_robot = DA
        THEN [written EXCEPT ![output_columns.date_discrepancy_robot] =
                 compare_dates(contract_date, StrValue(result.inclusion_date_robot))]
        ELSE written

\* lines 305-323: the row after its five output cells have been written
FilledRow(row, result, contract_date) ==
    LET exclusion_date == result.exclusion_date_robot
        kept == IF /\ exclusion_date # <<>>
                   /\ StrStrip(exclusion_date) # <<>>
                   /\ Lower(exclusion_date) \notin ExclusionPlaceholders
                THEN exclusion_date ELSE <<>>
        written == [row EXCEPT
                      ![output_columns.smsp_robot] = result.smsp_robot,
                      ![output_columns.category_robot] = result.category_robot,
                      ![output_columns.inclusion_date_robot] = result.inclusion_date_robot,
                      ![output_columns.exclusion_date_robot] = kept]
    IN  IF result.smsp_robot = DA
        THEN [written EXCEPT ![output_columns.date_discrepancy_robot] =
                 compare_dates(contract_date, StrValue(result.inclusion_date_robot))]
        ELSE written

\* lines 340-343: input_path.parent / f"{stem}_processed{suffix}"
OutputPath(path) ==
    IF Len(path) < 2 THEN path \o <<"_processed">>
    ELSE SubSeq(path, 1, Len(path) - 1) \o <<"_processed", path[Len(path)]>>

NothingWritten == [written |-> FALSE, path |-> <<>>, df |-> NoDataset]

\* no markup captured, and the markup a lookup has captured
NothingCaptured == [some |-> FALSE, page |-> Soup(<<>>)]
CapturedMarkup(page) == [some |-> TRUE, page |-> page]

\* the batch run's variables while another specification runs
BatchIdle ==
    /\ input_file = [path |-> <<>>, exists |-> FALSE, loadable |-> FALSE,
                     sheet |-> NoDataset]
    /\ endpoint_running = FALSE
    /\ pc = "idle"
    /\ df = NoDataset
    /\ parser = "none"
    /\ index = 0 /\ processed_count = 0 /\ found_count = 0
    /\ inn_str = <<>>
    /\ session = "none"
    /\ page_source = Soup(<<>>)
    /\ search_result = NoSearchResult
    /\ process_result = NotFoundRecord
    /\ output_file = NothingWritten
    /\ retval = "none"
    /\ exit_code = -1
    /\ status_requests = 0 /\ sessions_opened = 0 /\ navigations = 0
    /\ entered = <<>> /\ submits = 0 /\ lookup_end = "none" /\ outcomes = <<>>
    /\ sessions = <<>> /\ trace = <<>> /\ captured = NothingCaptured

---------------------------------------------------------------------------
(* Documents the registry page can show, built from blocks of markup *)

Date2016 == <<"0", "1", ".", "0", "8", ".", "2", "0", "1", "6">>
Date2020 == <<"1", "0", ".", "0", "7", ".", "2", "0", "2", "0">>
Date2021 == <<"1", "5", ".", "0", "3", ".", "2", "0", "2", "1">>
OrgName == <<"OOO Romashka">>
OrgName2 == <<"AO Vasilek">>
InnDigits == <<"7", "7", "0", "7", "0", "8", "3", "8", "9", "3">>

Div(class, kids) == Elem("div", class, <<>>, kids)
P(text) == Elem("p", "", <<>>, <<TextNode(text)>>)
Td(text) == Elem("td", "", <<>>, <<TextNode(text)>>)
Th(text) == Elem("th", "", <<>>, <<TextNode(text)>>)
Tr(cells) == Elem("tr", "", <<>>, cells)
Table(rows) == Elem("table", "", <<>>, rows)
LinkTo(href, text) == Elem("a", "", href, <<TextNode(text)>>)
TdLink(text) == Elem("td", "", <<>>, <<LinkTo(<<"/", "view", "?id=1">>, text)>>)

HeaderRow == Tr(<<Th(<<"Naimenovanie">>), Th(<<"Kategoriya">>), Th(<<"Region">>),
                  Th(<<"Data vklyucheniya">>), Th(<<"Data isklyucheniya">>)>>)

\* a results table: the header and one row of the registry
ResultTable(category, cells5) ==
    Table(<<HeaderRow,
            Tr(<<TdLink(OrgName), Td(category), Td(<<" ", "77", " ">>), Td(Date2016)>>
               \o cells5)>>)

Blocks ==
    { \* the negative-result banner in one string
      <<Div("", <<TextNode(<<DearUser, "!", " ", "ne najdeno", " ", "svedenij">>)>>)>>,
      \* the banner with its phrase in a <b> of its own
      <<Div("", <<Elem("b", "", <<>>, <<TextNode(<<DearUser, "!">>)>>),
                  TextNode(<<" ", "ne najdeno", " ", "svedenij">>)>>)>>,
      \* the banner with the last word of its wording in a <b>
      <<Div("", <<TextNode(<<DearUser, "!", " ", "NE NAJDENO", " ">>),
                  Elem("b", "", <<>>, <<TextNode(<<"SVEDENIJ">>)>>)>>)>>,
      \* the phrase without the wording
      <<P(<<DearUser, ",", " ", "dobro pozhalovat">>)>>,
      \* alert blocks, with and without a negative word
      <<Div("alert", <<TextNode(<<"Organizaciya", " ", "ne najdeno">>)>>)>>,
      <<Div("warning", <<TextNode(<<"servis rabotaet">>)>>)>>,
      \* the counter of records
      <<Div("", <<TextNode(<<"Najdeno zapisej:", " ", "0">>)>>)>>,
      <<Div("", <<TextNode(<<"Najdeno zapisej:", " ", "1">>)>>)>>,
      \* results tables
      <<ResultTable(<<"Maloe predpriyatie">>, <<>>)>>,
      <<ResultTable(NotSME, <<Td(Date2020)>>)>>,
      <<ResultTable(<<"Maloe predpriyatie">>, <<Td(Date2020)>>)>>,
      <<ResultTable(NotSME, <<Td(<<"-">>)>>)>>,
      <<Table(<<HeaderRow>>)>>,
      <<Table(<<Tr(<<TdLink(OrgName), Td(<<"Srednee predpriyatie">>),
                     Td(<<"77">>), Td(Date2016)>>)>>)>>,
      \* a table with a short row before its row of the registry, whose
      \* name is no link and whose exclusion cell is blank
      <<Table(<<HeaderRow,
                Tr(<<Td(<<"Vsego">>), Td(<<"1">>)>>),
                Tr(<<Td(OrgName2), Td(<<"Mikropredpriyatie">>), Td(<<"50">>),
                     Td(Date2020), Td(<<" ">>)>>)>>)>>,
      \* single elements and free text
      <<LinkTo(<<"/", "view", "?id=1">>, OrgName)>>,
      <<Elem("span", "organization-name", <<>>, <<TextNode(OrgName)>>)>>,
      <<P(<<"Maloe predpriyatie">>)>>,
      <<P(<<"Mikropredpriyatie">>)>>,
      <<P(NotSME)>>,
      <<P(<<"RSMP_CATEGORY">>)>>,
      <<P(<<"RSMP_CATEGORY", " ", "=", " ", "Maloe predpriyatie">>)>>,
      <<P(<<" ">> \o Date2016 \o <<" ">>)>>,
      <<P(<<"Data", " ", "isklyucheniya", ":", " ">> \o Date2021)>>,
      <<P(<<"vybyl", " ", "1", ".", "2", ".", "2", "2">>)>>,
      <<P(<<"vybyl", " ", "1", ".", "2", ".", "2", "2", ",", " ",
            "data", " ", "isklyucheniya", ":", " ">> \o Date2021)>>,
      <<Div("", <<TextNode(<<"INN", ":", " ">> \o InnDigits)>>)>> }

\* the sequences of at most n blocks
RECURSIVE BlockSeqs(_)
BlockSeqs(n) ==
    IF n = 0 THEN {<<>>}
    ELSE LET shorter == BlockSeqs(n - 1)
         IN  shorter \cup {s \o b : s \in shorter, b \in Blocks}

Documents == {Soup(kids) : kids \in BlockSeqs(MaxBlocks)}

---------------------------------------------------------------------------
(* SpecParse: both extractors applied to one document *)

InitParse ==
    /\ document \in Documents
    /\ parse_ret = EmptyResult
    /\ search_ret = EmptySearchResult
    /\ fn_pc = "call"
    /\ ValidateIdle /\ DatesIdle /\ BatchIdle

\* RMSPParser.parse_results(document)
ParseResults ==
    /\ fn_pc = "call"
    /\ parse_ret' = parse_results(document)
    /\ fn_pc' = "parsed"
    /\ UNCHANGED <<document, search_ret, validateVars, datesVars, batchVars, historyVars>>

\* parse_search_results(document, inn) of the alternate transports
ParseSearchResults ==
    /\ fn_pc = "parsed"
    /\ search_ret' = parse_search_results(document, <<>>)
    /\ fn_pc' = "done"
    /\ UNCHANGED <<document, parse_ret, validateVars, datesVars, batchVars, historyVars>>

NextParse == ParseResults \/ ParseSearchResults

SpecParse == InitParse /\ [][NextParse]_vars

\* the tags and classes of the elements of a document
TagsOf(soup) == {NodeAt(soup, p).tag : p \in Range(Descendants(soup, <<>>))}
ClassesOf(soup) == {NodeAt(soup, p).class : p \in Range(Descendants(soup, <<>>))}

\* the document text holds the "dear user" phrase and the "nothing found"
\* wording
HasBanner(soup) ==
    /\ DearUser \in Range(get_text(soup, <<>>))
    /\ Contains(get_text(soup, <<>>), NothingFound)

\* C7: for every document that holds the phrase "dear user" together with
\* the wording "nothing found", both extractors return found = false,
\* whatever else the document holds and wherever the phrase stands.
C7_BannerMeansNotFound ==
    (fn_pc = "done" /\ HasBanner(document)) =>
        /\ ~parse_ret.found
        /\ ~search_ret.found

\* a document whose only signal is the phrase "Maloe predpriyatie" in its
\* text, with a dd.mm.yyyy substring elsewhere: no banner, no alert block, no
\* counter, no table, no link, no organization-name element, no other
\* category phrase
KeywordOnly(soup) ==
    LET text == get_text(soup, <<>>)
    IN  /\ "Maloe predpriyatie" \in Range(text)
        /\ Range(text) \cap {"Mikropredpriyatie", "Srednee predpriyatie",
                             "Ne yavlyaetsya subektom MSP", DearUser,
                             "Najdeno zapisej:"} = {}
        /\ TagsOf(soup) \cap {"table", "tr", "td", "th", "a"} = {}
        /\ ClassesOf(soup) \subseteq {""}
        /\ FirstDate(text) # <<>>

HasMarker(soup) == "RSMP_CATEGORY" \in Range(get_text(soup, <<>>))

\* C8 as stated: for a keyword-only document RMSPParser.parse_results
\* returns found = true, the category "Maloe predpriyatie" and the first
\* dd.mm.yyyy substring of the text as inclusion_date.
C8_KeywordOnlyAsStated ==
    (fn_pc = "done" /\ KeywordOnly(document)) =>
        /\ parse_ret.found
        /\ parse_ret.category = <<"Maloe predpriyatie">>
        /\ parse_ret.inclusion_date = FirstDate(get_text(document, <<>>))

\* C8 amended: for a keyword-only document RMSPParser.parse_results returns
\* found = true with the category "Maloe predpriyatie" exactly when the text
\* also holds the marker RSMP_CATEGORY, returns the empty record otherwise,
\* and leaves inclusion_date empty either way; parse_search_results of the
\* alternate transports returns found = true, the category and the first
\* dd.mm.yyyy substring as inclusion_date.
C8_KeywordOnlyNeedsMarker ==
    (fn_pc = "done" /\ KeywordOnly(document)) =>
        /\ parse_ret.found <=> HasMarker(document)
        /\ parse_ret.found => parse_ret.category = <<"Maloe predpriyatie">>
        /\ ~parse_ret.found => parse_ret = EmptyResult
        /\ parse_ret.inclusion_date = <<>>
        /\ search_ret.found
        /\ search_ret.category = <<"Maloe predpriyatie">>
        /\ search_ret.inclusion_date = FirstDate(get_text(document, <<>>))

\* a keyword-only document with the marker has been through both extractors
C8_Witness ==
    /\ fn_pc = "done"
    /\ KeywordOnly(document)
    /\ HasMarker(document)
    /\ parse_ret.found
    /\ search_ret.inclusion_date = Date2016

\* the elements among the children of a node that have one of the tags
ChildElems(node, tags) ==
    LET Wanted(kid) == kid.tag \in tags
    IN  SelectSeq(node.kids, Wanted)

\* the text of a node as a reader sees it: its strings, each without the
\* white space around it
RECURSIVE VisibleText(_)
VisibleText(node) ==
    IF node.tag = "#text" THEN StrStrip(node.text)
    ELSE Concat([i \in 1..Len(node.kids) |-> VisibleText(node.kids[i])])

\* the row the primary extraction is to use: in the first table of the
\* document, the first row after the first one that has four cells or more
PrimaryRow(soup) ==
    LET tables == ChildElems(soup, {"table"})
        rows == IF tables = <<>> THEN <<>> ELSE ChildElems(tables[1], {"tr"})
        wide == {k \in 2..Len(rows) : Len(ChildElems(rows[k], {"td", "th"})) >= 4}
    IN  IF wide = {} THEN [some |-> FALSE, cells |-> <<>>]
        ELSE [some |-> TRUE, cells |-> ChildElems(rows[Min(wide)], {"td", "th"})]

\* the text of the fifth cell of a row when it holds an exclusion date:
\* present, not empty and not '-'; empty otherwise
ExclusionOfRow(cells) ==
    IF Len(cells) > 4 /\ VisibleText(cells[5]) \notin {<<>>, <<"-">>}
    THEN VisibleText(cells[5]) ELSE <<>>

\* one of the negative-result stages of lines 232-259 returns early
NegativeResult(soup) ==
    \/ NegativeByWarning(soup).hit
    \/ NegativeByUserMessage(soup).hit
    \/ NegativeByFoundCount(soup).hit

\* the record has the fields of the cells of a row: the name from cell 0
\* (the text of its link if it has one), the category from cell 1, the
\* region from cell 2, the inclusion date from cell 3, and the exclusion
\* date from cell 4 when that cell is present, not empty and not '-';
\* without such a cell the exclusion date is empty unless the category is
\* the excluded one
RecordOfCells(r, cells) ==
    LET links == ChildElems(cells[1], {"a"})
    IN  /\ r.found
        /\ r.organization_name =
              IF links # <<>> THEN VisibleText(links[1]) ELSE VisibleText(cells[1])
        /\ r.category = VisibleText(cells[2])
        /\ r.region = VisibleText(cells[3])
        /\ r.inclusion_date = VisibleText(cells[4])
        /\ ExclusionOfRow(cells) # <<>> => r.exclusion_date = ExclusionOfRow(cells)
        /\ (ExclusionOfRow(cells) = <<>> /\ r.category # NotSME) => r.exclusion_date = <<>>

PageFields(r) == <<r.organization_name, r.category, r.region, r.inclusion_date>>

\* C22: for a document that passes the negative-result stages, when the
\* primary table extraction has set found the record has the name, the
\* category, the region and the inclusion date that stage gave them,
\* whatever the selectors and the keywords would match; when it has not
\* and a selector matches, these fields are those of the selector
\* fallback and the keyword fallback adds nothing; only when neither has
\* set found are they those of the keyword fallback.
C22_FallbacksOnlyWhenNotFound ==
    fn_pc = "done" =>
        \A primary \in {TableExtraction(document, EmptyResult)} :
            \/ /\ primary.found
               /\ parse_ret.found
               /\ PageFields(parse_ret) = PageFields(primary)
            \/ /\ ~primary.found
               /\ \A selected \in {SelectorFallback(document, EmptyResult)} :
                     IF selected.found
                     THEN /\ parse_ret.found
                          /\ PageFields(parse_ret) = PageFields(selected)
                     ELSE \A keyed \in {KeywordFallback(document, EmptyResult)} :
                          /\ parse_ret.found = keyed.found
                          /\ PageFields(parse_ret) = PageFields(keyed)
            \/ NegativeResult(document)

\* a link to the details of one organization stands before the table of
\* another one: the record is that of the table
C22_Witness ==
    /\ fn_pc = "done"
    /\ Len(document.kids) = 2
    /\ document.kids[1].tag = "a"
    /\ VisibleText(document.kids[1]) = OrgName
    /\ ~select_one(document, "a[href*=view]").none
    /\ PrimaryRow(document).some
    /\ parse_ret.found
    /\ parse_ret.organization_name = OrgName2
    /\ parse_ret.category = <<"Mikropredpriyatie">>

\* the category a text gets when the four phrases are looked for in the
\* order of the claim, <<>> when it has none of them
EarliestPhrase(symbols) ==
    IF "Mikropredpriyatie" \in symbols THEN <<"Mikropredpriyatie">>
    ELSE IF "Maloe predpriyatie" \in symbols THEN <<"Maloe predpriyatie">>
    ELSE IF "Srednee predpriyatie" \in symbols THEN <<"Srednee predpriyatie">>
    ELSE IF "Ne yavlyaetsya subektom MSP" \in symbols THEN NotSME
    ELSE <<>>

\* the same for the three phrases parse_search_results looks for, in the
\* text put to lower case
EarliestOfThree(symbols) ==
    IF "mikropredpriyatie" \in symbols THEN <<"Mikropredpriyatie">>
    ELSE IF "maloe predpriyatie" \in symbols THEN <<"Maloe predpriyatie">>
    ELSE IF "srednee predpriyatie" \in symbols THEN <<"Srednee predpriyatie">>
    ELSE <<>>

\* parse_results comes to its keyword fallback: neither the table nor a
\* selector has set found, and no negative result
AtKeywordFallback(soup) ==
    /\ ~TableExtraction(soup, EmptyResult).found
    /\ ~NegativeResult(soup)
    /\ ~SelectorFallback(soup, EmptyResult).found

\* parse_search_results comes to its keyword search: no banner, no table
AtKeywordSearch(soup) ==
    /\ ~HasDearUser(get_text(soup, <<>>))
    /\ "table" \notin TagsOf(soup)

\* C23 as stated: in the keyword fallback of either extractor the first of
\* the four phrases, in the fixed order, that the document text holds sets
\* found = true and the category.
C23_FirstPhraseAsStated ==
    fn_pc = "done" =>
        \A phrase \in {EarliestPhrase(Range(get_text(document, <<>>)))} :
            /\ (AtKeywordFallback(document) /\ phrase # <<>>) =>
                  parse_ret.found /\ parse_ret.category = phrase
            /\ (AtKeywordSearch(document) /\ phrase # <<>>) =>
                  search_ret.found /\ search_ret.category = phrase

\* C23 amended: the keyword fallback of parse_results sets found exactly
\* when the text holds the marker RSMP_CATEGORY and one of the four
\* phrases, and the category is then the earliest of them in the fixed
\* order; the keyword search of parse_search_results needs no marker, looks
\* for the first three phrases only, in lower case, and sets found and the
\* earliest of them exactly when one is there.
C23_FirstPhraseInOrder ==
    fn_pc = "done" =>
        /\ \A phrase \in {EarliestPhrase(Range(get_text(document, <<>>)))} :
              \/ /\ parse_ret.found <=> (HasMarker(document) /\ phrase # <<>>)
                 /\ parse_ret.category = IF parse_ret.found THEN phrase ELSE <<>>
              \/ ~AtKeywordFallback(document)
        /\ \A phrase \in {EarliestOfThree(Range(Lower(get_text(document, <<>>))))} :
              \/ /\ search_ret.found <=> phrase # <<>>
                 /\ search_ret.category = IF search_ret.found THEN phrase ELSE <<"-">>
              \/ ~AtKeywordSearch(document)

\* a document that names the small enterprise first, with the marker, and
\* the micro-enterprise after it: both extractors give the micro-enterprise
C23_Witness ==
    /\ fn_pc = "done"
    /\ Len(document.kids) = 2
    /\ VisibleText(document.kids[1]) =
          <<"RSMP_CATEGORY", " ", "=", " ", "Maloe predpriyatie">>
    /\ VisibleText(document.kids[2]) = <<"Mikropredpriyatie">>
    /\ parse_ret.found
    /\ parse_ret.category = <<"Mikropredpriyatie">>
    /\ search_ret.found
    /\ search_ret.category = <<"Mikropredpriyatie">>

\* the record as the strategies of lines 261-383 leave it, before the
\* exclusion-date recovery
BeforeRecovery(soup) ==
    KeywordFallback(soup,
        SelectorFallback(soup,
            DetailBlocks(soup, TableExtraction(soup, EmptyResult))))

\* the date the first of the five patterns that matches the text gives,
\* taking them in the declared order; <<>> when none matches
FirstPatternDate(text) ==
    LET Match(k) == ExclusionSearch(exclusion_patterns[k], text)
    IN  IF Match(1).ok THEN Match(1).group
        ELSE IF Match(2).ok THEN Match(2).group
        ELSE IF Match(3).ok THEN Match(3).group
        ELSE IF Match(4).ok THEN Match(4).group
        ELSE IF Match(5).ok THEN Match(5).group
        ELSE <<>>

\* C24: for a document that passes the negative-result stages, an
\* exclusion date the table or the selector fallback took from a cell is
\* returned as it is; a record that is not found, or whose category is not
\* the excluded one, has the exclusion date it had before the recovery;
\* and a found record of the excluded category without one gets the date
\* of the first pattern, in the declared order, that matches the document
\* text, or stays without when none matches.
C24_ExclusionRecovery ==
    (fn_pc = "done" /\ ~NegativeResult(document)) =>
        \A before \in {BeforeRecovery(document)} :
            /\ before.exclusion_date # <<>> =>
                  parse_ret.exclusion_date = before.exclusion_date
            /\ (~before.found \/ before.category # NotSME) =>
                  parse_ret.exclusion_date = before.exclusion_date
            /\ (before.found /\ before.category = NotSME /\ before.exclusion_date = <<>>) =>
                  parse_ret.exclusion_date = FirstPatternDate(get_text(document, <<>>))
            /\ parse_ret = [before EXCEPT !.exclusion_date = parse_ret.exclusion_date]

\* the table gives the excluded category and '-' for the exclusion date,
\* and the text after it has "vybyl 1.2.22" before "Data isklyucheniya:
\* 15.03.2021": the date of the first pattern is returned
C24_Witness ==
    /\ fn_pc = "done"
    /\ PrimaryRow(document).some
    /\ Len(PrimaryRow(document).cells) = 5
    /\ VisibleText(PrimaryRow(document).cells[5]) = <<"-">>
    /\ parse_ret.found
    /\ parse_ret.category = NotSME
    /\ ExclusionSearch(exclusion_patterns[4], get_text(document, <<>>)).ok
    /\ ExclusionSearch(exclusion_patterns[4], get_text(document, <<>>)).group # Date2021
    /\ parse_ret.exclusion_date = Date2021

\* no strategy of the cascade matches the document: no row for the primary
\* extraction, no marker with a category phrase in the text, no negative
\* result and no element for a selector
NoStrategyMatches(soup) ==
    /\ ~PrimaryRow(soup).some
    /\ ~(HasMarker(soup) /\ EarliestPhrase(Range(get_text(soup, <<>>))) # <<>>)
    /\ ~NegativeResult(soup)
    /\ \A k \in 1..Len(name_selectors) : select_one(soup, name_selectors[k]).none

\* C28: every record parse_results returns with found = false has an empty
\* organization name, category, region, inclusion date, exclusion date,
\* identifier and registration number, and its message is empty unless a
\* negative-result stage returned it; a document that no strategy matches
\* gets this record, with found = false and an empty message.
C28_NotFoundRecordIsEmpty ==
    fn_pc = "done" =>
        /\ ~parse_ret.found =>
              /\ parse_ret.organization_name = <<>>
              /\ parse_ret.category = <<>>
              /\ parse_ret.region = <<>>
              /\ parse_ret.inclusion_date = <<>>
              /\ parse_ret.exclusion_date = <<>>
              /\ parse_ret.inn = <<>>
              /\ parse_ret.ogrn = <<>>
              /\ parse_ret.message # <<>> => NegativeResult(document)
        /\ (~parse_ret.found /\ parse_ret.message = <<>>) \/ ~NoStrategyMatches(document)

\* a document with a category phrase and a date but no marker, no table
\* and no link has been parsed: nothing matched, the record is empty
C28_Witness ==
    /\ fn_pc = "done"
    /\ Len(document.kids) = 2
    /\ NoStrategyMatches(document)
    /\ EarliestPhrase(Range(get_text(document, <<>>))) = NotSME
    /\ FirstDate(get_text(document, <<>>)) = Date2016
    /\ ~parse_ret.found
    /\ parse_ret.category = <<>>
    /\ parse_ret.message = <<>>

---------------------------------------------------------------------------
(* SpecDates: compare_dates applied to one pair of values *)

\* text of a date from its day, month and year digits
DateText(d, m, y, sep, ymd) ==
    IF ymd THEN y \o <<sep>> \o m \o <<sep>> \o d
    ELSE d \o <<sep>> \o m \o <<sep>> \o y

DayTexts == {<<"1">>, <<"0", "1">>, <<"2", "9">>, <<"3", "1">>}
MonthTexts == {<<"0", "2">>, <<"1", "2">>}
YearTexts == {<<"2", "0", "1", "9">>, <<"2", "0", "2", "0">>, <<"2", "0">>}
Layouts == {<<".", FALSE>>, <<"/", FALSE>>, <<"-", FALSE>>, <<"-", TRUE>>}

DateTexts ==
    { DateText(d, m, y, l[1], l[2]) :
        d \in DayTexts, m \in MonthTexts, y \in YearTexts, l \in Layouts }

DateValues ==
    { StrValue(t) : t \in DateTexts }
    \cup { StrValue(<<>>), StrValue(<<" ">>), StrValue(<<"a", "b", "c">>),
           StrValue(<<" ", "0", "1", ".", "0", "2", ".", "2", "0", "2", "0", LF>>),
           StrValue(<<"0", "1", ".", "0", "2", ".", "2", "0", "2", "0", "1">>),
           NanValue, OtherValue,
           DatetimeValue(Date(2020, 2, 1)), DateObjValue(Date(2019, 12, 31)) }

InitDates ==
    /\ contract_arg \in DateValues
    /\ inclusion_arg \in DateValues
    /\ cmp_ret = EMPTY
    /\ fn_pc = "call"
    /\ ValidateIdle /\ ParseIdle /\ BatchIdle

CompareDates ==
    /\ fn_pc = "call"
    /\ cmp_ret' = compare_dates(contract_arg, inclusion_arg)
    /\ fn_pc' = "done"
    /\ UNCHANGED <<contract_arg, inclusion_arg, validateVars, parseVars, batchVars,
                   historyVars>>

NextDates == CompareDates

SpecDates == InitDates /\ [][NextDates]_vars

\* a calendar date as one number, ordered as the calendar is
DateOrdinal(dt) == dt.y * 10000 + dt.m * 100 + dt.d

\* C6: compare_dates returns the no-data value '' whenever parse_date fails
\* on either argument; when both parse it returns 'da' iff the contract date
\* is strictly earlier than the inclusion date and 'net' otherwise, equal
\* dates included; and '' is neither 'da' nor 'net'.
C6_CompareDates ==
    fn_pc = "done" =>
        LET c == parse_date(contract_arg)
            i == parse_date(inclusion_arg)
        IN  /\ (c.none \/ i.none) => cmp_ret = EMPTY
            /\ (~c.none /\ ~i.none) =>
                   /\ cmp_ret \in {DA, NET}
                   /\ cmp_ret = DA <=> DateOrdinal(c) < DateOrdinal(i)
            /\ EMPTY \notin {DA, NET}

\* C6's case: two different texts of the same calendar day compare 'net'
C6_Witness ==
    /\ fn_pc = "done"
    /\ contract_arg.kind = "str" /\ inclusion_arg.kind = "str"
    /\ contract_arg.text # inclusion_arg.text
    /\ ~parse_date(contract_arg).none
    /\ parse_date(contract_arg) = parse_date(inclusion_arg)
    /\ cmp_ret = NET

\* the fields of a text between its symbols that are not digits
NonDigitAt(text) == {i \in 1..Len(text) : text[i] \notin AsciiDigits}

\* the calendar date with these numbers, none when there is no such day
CalendarDate(y, m, d) ==
    IF y >= 1 /\ m \in 1..12 /\ d >= 1 /\ d <= DaysInMonth(y, m)
    THEN Date(y, m, d) ELSE NoDate

\* a two-digit year as the C library's convention reads it
CenturyOf(yy) == IF yy <= 68 THEN 2000 + yy ELSE 1900 + yy

\* the date a text names in one of the six layouts, read off its three
\* fields of digits and its separator; none when it is in no layout or
\* names no calendar day
DateNamedBy(text) ==
    LET t == StrStrip(text)
        at == NonDigitAt(t)
    IN  IF Cardinality(at) # 2 THEN NoDate
        ELSE LET i == CHOOSE k \in at : \A j \in at : k <= j
                 j == CHOOSE k \in at : \A h \in at : h <= k
                 f1 == SubSeq(t, 1, i - 1)
                 f2 == SubSeq(t, i + 1, j - 1)
                 f3 == SubSeq(t, j + 1, Len(t))
             IN  IF t[i] # t[j] \/ t[i] \notin {".", "/", "-"} THEN NoDate
                 ELSE IF Len(f2) \notin {1, 2} THEN NoDate
                 ELSE IF t[i] = "-" /\ Len(f1) = 4 /\ Len(f3) \in {1, 2}
                      THEN CalendarDate(ToInt(f1), ToInt(f2), ToInt(f3))
                 ELSE IF Len(f1) \notin {1, 2} THEN NoDate
                 ELSE IF Len(f3) = 4
                      THEN CalendarDate(ToInt(f3), ToInt(f2), ToInt(f1))
                 ELSE IF Len(f3) = 2 /\ t[i] \in {".", "/"}
                      THEN CalendarDate(CenturyOf(ToInt(f3)), ToInt(f2), ToInt(f1))
                 ELSE NoDate

\* what parse_date is to return for a value
ExpectedDate(value) ==
    CASE value.kind \in {"datetime", "date"} -> value.date
      [] value.kind = "str" -> DateNamedBy(value.text)
      [] OTHER -> NoDate

\* the formats of date_formats that parse the stripped text
ParsingFormats(text) ==
    {k \in 1..Len(date_formats) : ~strptime(StrStrip(text), date_formats[k]).none}

\* C25: parse_date gives a result for every value and raises nothing: None
\* for a missing, empty or blank value, for a value that is neither text
\* nor a date, and for a text in none of the six layouts dd.mm.yyyy,
\* dd/mm/yyyy, yyyy-mm-dd, dd-mm-yyyy, dd.mm.yy, dd/mm/yy or naming no
\* calendar day; the calendar date of a datetime or date value; and for a
\* text the result of the first format, in that order, that parses its
\* stripped form, which is the date the text names, so that a dd.mm.yyyy
\* text of a calendar day parses to that day.
C25_ParseDate ==
    fn_pc = "done" =>
        \A value \in {contract_arg, inclusion_arg} :
            \A parsed \in {parse_date(value)} :
                /\ parsed = ExpectedDate(value)
                /\ value.kind \in {"nan", "other"} => parsed.none
                /\ (value.kind = "str" /\ StrStrip(value.text) = <<>>) => parsed.none
                /\ value.kind = "str" =>
                      \A formats \in {ParsingFormats(value.text)} :
                          /\ formats = {} => parsed.none
                          /\ \A k \in formats :
                                (\A j \in formats : k <= j) =>
                                    parsed = strptime(StrStrip(value.text), date_formats[k])

\* C25's case: a dd.mm.yyyy text with white space around it has parsed to
\* its day and a dd/mm/yy text to a day of this century, and the earlier
\* one is the contract's
C25_Witness ==
    /\ fn_pc = "done"
    /\ contract_arg = StrValue(<<" ", "0", "1", ".", "0", "2", ".", "2", "0", "2", "0", LF>>)
    /\ parse_date(contract_arg) = Date(2020, 2, 1)
    /\ inclusion_arg = StrValue(DateText(<<"3", "1">>, <<"1", "2">>, <<"2", "0">>, "/", FALSE))
    /\ parse_date(inclusion_arg) = Date(2020, 12, 31)
    /\ cmp_ret = DA

---------------------------------------------------------------------------
(* SpecValidate: validate_inn applied to one input string *)

DigitRun(n) == SubSeq(<<"1", "2", "3", "4", "5", "6", "7", "8", "9", "0",
                        "1", "2", "3", "4", "5", "6">>, 1, n)

InnPieces == {<<>>, <<" ">>, <<"-">>, <<LF>>, <<"a">>}

\* the inputs: two runs of digits with a piece before, between and after
InnInputs ==
    { a \o DigitRun(n1) \o b \o DigitRun(n2) \o c :
        a \in InnPieces, b \in InnPieces, c \in InnPieces,
        n1 \in 0..MaxDigits, n2 \in 0..MaxDigits }

InitValidate ==
    /\ inn_arg \in InnInputs
    /\ inn_ret = InnRejected
    /\ fn_pc = "call"
    /\ DatesIdle /\ ParseIdle /\ BatchIdle

ValidateInn ==
    /\ fn_pc = "call"
    /\ inn_ret' = validate_inn(inn_arg)
    /\ fn_pc' = "done"
    /\ UNCHANGED <<inn_arg, datesVars, parseVars, batchVars, historyVars>>

NextValidate == ValidateInn

SpecValidate == InitValidate /\ [][NextValidate]_vars

\* the claimed acceptance condition: the cleaned string is 10 or 12 digits
TenOrTwelveDigits(s) == Len(s) \in {10, 12} /\ DigitsAt(s, 1, Len(s))

\* C1: validate_inn accepts an input iff, with every space and hyphen
\* removed, it is exactly 10 or exactly 12 decimal digits, and it then
\* returns that cleaned string; otherwise it returns False.
C1_AcceptsIffTenOrTwelveDigits ==
    fn_pc = "done" =>
        LET cleaned == Remove(Remove(inn_arg, " "), "-")
        IN  /\ inn_ret.accepted <=> TenOrTwelveDigits(cleaned)
            /\ inn_ret.accepted => inn_ret.inn = cleaned
            /\ ~inn_ret.accepted => inn_ret = InnRejected


---------------------------------------------------------------------------
(* Spec: a run of the CLI of excel_rmsp_processor.py on one input file *)

Contract2015 == <<"0", "1", ".", "0", "1", ".", "2", "0", "1", "5">>

InputRow(inn_value, contract_date) ==
    (input_columns.inn :> inn_value) @@ (input_columns.contract_date :> contract_date)

\* rows of an input sheet: no identifier, a blank one, a malformed one, a
\* whole number, ten digits with a line feed and a hyphen
InputRows ==
    { InputRow(NanValue, StrValue(Contract2015)),
      InputRow(StrValue(<<" ", " ">>), NanValue),
      InputRow(StrValue(<<"1", "2", " ", "3", "4", "5">>), StrValue(Contract2015)),
      InputRow(IntValue(InnDigits), StrValue(Contract2015)),
      InputRow(StrValue(<<"1", "2", "3", "4", "5", "6", "7", "8", "9", "0", LF, "-">>),
               DatetimeValue(Date(2020, 7, 10))) }

RECURSIVE RowSeqs(_)
RowSeqs(n) ==
    IF n = 0 THEN {<<>>}
    ELSE LET shorter == RowSeqs(n - 1)
         IN  shorter \cup {Append(rs, r) : rs \in shorter, r \in InputRows}

\* the output cells of a row of a sheet that has been processed before
StaleCells ==
    (output_columns.smsp_robot :> DA)
    @@ (output_columns.category_robot :> <<"Maloe predpriyatie">>)
    @@ (output_columns.inclusion_date_robot :> Date2016)
    @@ (output_columns.exclusion_date_robot :> <<>>)
    @@ (output_columns.date_discrepancy_robot :> DA)

Sheet(columns, rows) ==
    [columns |-> columns,
     rows |-> [i \in 1..Len(rows) |->
                 [c \in columns |-> IF c \in DOMAIN rows[i] THEN rows[i][c]
                                    ELSE StaleCells[c]]]]

RequiredColumns == {input_columns.inn, input_columns.contract_date}

\* the column sets of a sheet: the two required ones, those and the five
\* output columns, and one required column alone
ColumnSets ==
    { RequiredColumns, RequiredColumns \cup OutputColumnNames,
      {input_columns.inn}, {input_columns.contract_date} }

\* sheets: up to MaxRows rows; a sheet that has been processed before, and
\* so has the output columns already, up to MaxStaleRows rows
Sheets ==
    {Sheet(cs, rs) : cs \in ColumnSets \ {RequiredColumns \cup OutputColumnNames},
                     rs \in RowSeqs(MaxRows)}
    \cup {Sheet(RequiredColumns \cup OutputColumnNames, rs) : rs \in RowSeqs(MaxStaleRows)}

SampleSheet == Sheet(RequiredColumns, <<InputRow(IntValue(InnDigits), StrValue(Contract2015))>>)

InputFiles ==
    {[path |-> <<"companies", ".xlsx">>, exists |-> TRUE, loadable |-> TRUE,
      sheet |-> sh] : sh \in Sheets}
    \cup {[path |-> <<"companies", ".XLS">>, exists |-> TRUE, loadable |-> TRUE,
           sheet |-> SampleSheet],
          [path |-> <<"companies", ".xlsx">>, exists |-> FALSE, loadable |-> FALSE,
           sheet |-> NoDataset],
          [path |-> <<"companies", ".csv">>, exists |-> TRUE, loadable |-> TRUE,
           sheet |-> SampleSheet],
          [path |-> <<"companies", ".xlsx">>, exists |-> TRUE, loadable |-> FALSE,
           sheet |-> NoDataset]}

\* documents the registry page shows after a search: the banner, a page
\* with neither banner nor table, and results tables
PageDocs ==
    { Soup(<<Div("", <<TextNode(<<DearUser, "!", " ", "ne najdeno", " ", "svedenij">>)>>)>>),
      Soup(<<P(<<"Maloe predpriyatie">>)>>),
      Soup(<<ResultTable(<<"Maloe predpriyatie">>, <<Td(Date2020)>>)>>),
      Soup(<<ResultTable(NotSME, <<Td(Date2020)>>)>>),
      Soup(<<ResultTable(NotSME, <<Td(<<"Ne ukazana">>)>>)>>) }

Init ==
    /\ input_file \in InputFiles
    /\ endpoint_running \in BOOLEAN
    /\ pc = "process_excel_file"
    /\ df = NoDataset
    /\ parser = "none"
    /\ index = 0 /\ processed_count = 0 /\ found_count = 0
    /\ inn_str = <<>>
    /\ session = "none"
    /\ page_source = Soup(<<>>)
    /\ search_result = NoSearchResult
    /\ process_result = NotFoundRecord
    /\ output_file = NothingWritten
    /\ retval = "none"
    /\ exit_code = -1
    /\ status_requests = 0 /\ sessions_opened = 0 /\ navigations = 0
    /\ entered = <<>> /\ submits = 0 /\ lookup_end = "none" /\ outcomes = <<>>
    /\ sessions = <<>> /\ trace = <<>> /\ captured = NothingCaptured
    /\ fn_pc = "idle"
    /\ ValidateIdle /\ DatesIdle /\ ParseIdle

pureVars == <<fn_pc, validateVars, datesVars, parseVars>>

\* process_excel_file, lines 271-273
ValidateExcelFile ==
    /\ pc = "process_excel_file"
    /\ IF validate_excel_file(input_file)
       THEN pc' = "load_excel_file" /\ UNCHANGED retval
       ELSE pc' = "returned" /\ retval' = "False"
    /\ UNCHANGED <<input_file, endpoint_running, df, parser, index, processed_count,
                   found_count, inn_str, session, page_source, search_result,
                   process_result, output_file, exit_code, historyVars, pureVars>>

\* lines 275-278
LoadExcelFile ==
    /\ pc = "load_excel_file"
    /\ LET loaded == load_excel_file(input_file)
       IN  IF loaded.none
           THEN pc' = "returned" /\ retval' = "False" /\ UNCHANGED df
           ELSE pc' = "validate_columns" /\ df' = loaded.df /\ UNCHANGED retval
    /\ UNCHANGED <<input_file, endpoint_running, parser, index, processed_count,
                   found_count, inn_str, session, page_source, search_result,
                   process_result, output_file, exit_code, historyVars, pureVars>>

\* lines 280-282
ValidateColumns ==
    /\ pc = "validate_columns"
    /\ IF validate_columns(df)
       THEN pc' = "add_output_columns" /\ UNCHANGED retval
       ELSE pc' = "returned" /\ retval' = "False"
    /\ UNCHANGED <<input_file, endpoint_running, df, parser, index, processed_count,
                   found_count, inn_str, session, page_source, search_result,
                   process_result, output_file, exit_code, historyVars, pureVars>>

\* lines 284-285
AddOutputColumns ==
    /\ pc = "add_output_columns"
    /\ df' = add_output_columns(df)
    /\ pc' = "init_parser"
    /\ UNCHANGED <<input_file, endpoint_running, parser, index, processed_count,
                   found_count, inn_str, session, page_source, search_result,
                   process_result, output_file, retval, exit_code, historyVars,
                   pureVars>>

\* lines 287-295: init_parser, and the counters of the loop
InitParser ==
    /\ pc = "init_parser"
    /\ parser' = "ready"
    /\ index' = 1 /\ processed_count' = 0 /\ found_count' = 0
    /\ pc' = "row"
    /\ UNCHANGED <<input_file, endpoint_running, df, inn_str, session, page_source,
                   search_result, process_result, output_file, retval, exit_code,
                   historyVars, pureVars>>

\* lines 297-302 and process_single_inn, lines 218-231: the next row, or the
\* end of the loop
NextRow ==
    /\ pc = "row"
    /\ IF index > Len(df.rows)
       THEN /\ pc' = "save"
            /\ UNCHANGED <<inn_str, process_result, lookup_end>>
       ELSE LET inn_value == df.rows[index][input_columns.inn]
            IN  IF IsEmptyInn(inn_value)
                THEN /\ process_result' = NotFoundRecord
                     /\ lookup_end' = "empty"
                     /\ pc' = "fill"
                     /\ UNCHANGED inn_str
                ELSE /\ inn_str' = StrStrip(PyStr(inn_value))
                     /\ lookup_end' = "none"
                     /\ pc' = "search_by_inn"
                     /\ UNCHANGED process_result
    /\ captured' = NothingCaptured
    /\ UNCHANGED <<input_file, endpoint_running, df, parser, index, processed_count,
                   found_count, session, page_source, search_result, output_file,
                   retval, exit_code, status_requests, sessions_opened, navigations,
                   entered, submits, outcomes, sessions, trace, pureVars>>

\* the trace after the lookup of the row at hand has taken a step
Stepped(step) == Append(trace, [row |-> index, step |-> step])

\* search_by_inn, lines 418-428: the validator's gate; from here on inn_str
\* is validated_inn
SearchByInn ==
    /\ pc = "search_by_inn"
    /\ trace' = Stepped("lookup")
    /\ LET validated_inn == validate_inn(inn_str)
       IN  IF InnFalsy(validated_inn)
           THEN /\ search_result' = NoSearchResult
                /\ lookup_end' = "invalid"
                /\ pc' = "lookup_returned"
                /\ UNCHANGED inn_str
           ELSE /\ inn_str' = validated_inn.inn
                /\ pc' = "setup_chrome_driver"
                /\ UNCHANGED <<search_result, lookup_end>>
    /\ UNCHANGED <<input_file, endpoint_running, df, parser, index, processed_count,
                   found_count, session, page_source, process_result, output_file,
                   retval, exit_code, status_requests, sessions_opened, navigations,
                   entered, submits, outcomes, sessions, captured, pureVars>>

\* setup_chrome_driver that opens a session without asking for the status
SetupChromeDriver_unchecked ==
    /\ pc = "setup_chrome_driver"
    /\ session' = "open"
    /\ sessions_opened' = sessions_opened + 1
    /\ sessions' = Append(sessions, [row |-> index, state |-> "open"])
    /\ trace' = Stepped("open")
    /\ pc' = "driver_get"
    /\ UNCHANGED <<input_file, endpoint_running, df, parser, index, processed_count,
                   found_count, inn_str, page_source, search_result, process_result,
                   output_file, retval, exit_code, status_requests, navigations,
                   entered, submits, lookup_end, outcomes, captured, pureVars>>

\* setup_chrome_driver, lines 59-100, and lines 112-114: the status request,
\* then the session.  It returns None when the endpoint does not answer,
\* when it answers with another status than 200, when webdriver.Remote
\* raises, and when driver.implicitly_wait raises: in this last case the
\* session exists at the endpoint and nothing closes it
SetupChromeDriver ==
    /\ pc = "setup_chrome_driver"
    /\ status_requests' = status_requests + 1
    /\ \/ /\ ~endpoint_running
          /\ search_result' = NoSearchResult
          /\ lookup_end' = "unreachable"
          /\ pc' = "lookup_returned"
          /\ trace' = Stepped("status")
          /\ UNCHANGED <<session, sessions_opened, sessions>>
       \/ /\ endpoint_running
          /\ search_result' = NoSearchResult
          /\ lookup_end' = "no_session"
          /\ pc' = "lookup_returned"
          /\ trace' = Stepped("status")
          /\ UNCHANGED <<session, sessions_opened, sessions>>
       \/ /\ endpoint_running
          /\ session' = "open"
          /\ sessions_opened' = sessions_opened + 1
          /\ sessions' = Append(sessions, [row |-> index, state |-> "open"])
          /\ trace' = Stepped("status") \o <<[row |-> index, step |-> "open"]>>
          /\ search_result' = NoSearchResult
          /\ lookup_end' = "setup_error"
          /\ pc' = "lookup_returned"
       \/ /\ endpoint_running
          /\ session' = "open"
          /\ sessions_opened' = sessions_opened + 1
          /\ sessions' = Append(sessions, [row |-> index, state |-> "open"])
          /\ trace' = Stepped("status") \o <<[row |-> index, step |-> "open"]>>
          /\ pc' = "driver_get"
          /\ UNCHANGED <<search_result, lookup_end>>
    /\ UNCHANGED <<input_file, endpoint_running, df, parser, index, processed_count,
                   found_count, inn_str, page_source, process_result, output_file,
                   retval, exit_code, navigations, entered, submits, outcomes,
                   captured, pureVars>>

\* line 118: driver.get(base_url), or an exception
DriverGet ==
    /\ pc = "driver_get"
    /\ \/ /\ navigations' = navigations + 1
          /\ trace' = Stepped("navigate")
          /\ pc' = "locate_input"
          /\ UNCHANGED <<search_result, lookup_end>>
       \/ /\ search_result' = NoSearchResult
          /\ lookup_end' = "navigation"
          /\ pc' = "driver_close"
          /\ UNCHANGED <<navigations, trace>>
    /\ UNCHANGED <<input_file, endpoint_running, df, parser, index, processed_count,
                   found_count, inn_str, session, page_source, process_result,
                   output_file, retval, exit_code, status_requests, sessions_opened,
                   entered, submits, outcomes, sessions, captured, pureVars>>

\* LocateSearchInput that goes on to the entry although no field was found
LocateSearchInput_unguarded ==
    /\ pc = "locate_input"
    /\ \/ trace' = Stepped("locate")
       \/ UNCHANGED trace
    /\ pc' = "send_keys"
    /\ UNCHANGED <<input_file, endpoint_running, df, parser, index, processed_count,
                   found_count, inn_str, session, page_source, search_result,
                   process_result, output_file, retval, exit_code, status_requests,
                   sessions_opened, navigations, entered, submits, lookup_end,
                   outcomes, sessions, captured, pureVars>>

\* lines 121-138: the search field, found by the wait or, after its
\* timeout, as the first input of type text or search; None when the page
\* has no such input (an input of another type met on the way raises a
\* TypeError, get_attribute taking one argument, and the result is the same
\* None)
LocateSearchInput ==
    /\ pc = "locate_input"
    /\ \/ /\ trace' = Stepped("locate")
          /\ pc' = "send_keys"
          /\ UNCHANGED <<search_result, lookup_end>>
       \/ /\ search_result' = NoSearchResult
          /\ lookup_end' = "no_search_field"
          /\ pc' = "driver_close"
          /\ UNCHANGED trace
    /\ UNCHANGED <<input_file, endpoint_running, df, parser, index, processed_count,
                   found_count, inn_str, session, page_source, process_result,
                   output_file, retval, exit_code, status_requests, sessions_opened,
                   navigations, entered, submits, outcomes, sessions, captured,
                   pureVars>>

\* lines 140-143: search_input.clear(); search_input.send_keys(inn)
EnterInn ==
    /\ pc = "send_keys"
    /\ entered' = Append(entered, inn_str)
    /\ trace' = Stepped("enter")
    /\ pc' = "find_button"
    /\ UNCHANGED <<input_file, endpoint_running, df, parser, index, processed_count,
                   found_count, inn_str, session, page_source, search_result,
                   process_result, output_file, retval, exit_code, status_requests,
                   sessions_opened, navigations, submits, lookup_end, outcomes,
                   sessions, captured, pureVars>>

\* what the page offers to submit the form with
SubmitControls == {"button", "submit_control", "none"}

\* Submit that clicks a second time when the first click raised
Submit_retry ==
    /\ pc = "find_button"
    /\ \E control \in SubmitControls :
          \/ /\ control # "none"
             /\ submits' = submits + 1
             /\ trace' = Stepped("submit")
             /\ pc' = "wait_results"
             /\ UNCHANGED <<search_result, lookup_end>>
          \/ /\ control # "none"
             /\ submits' = submits + 2
             /\ trace' = Stepped("submit") \o <<[row |-> index, step |-> "submit"]>>
             /\ pc' = "wait_results"
             /\ UNCHANGED <<search_result, lookup_end>>
          \/ /\ control = "none"
             /\ search_result' = NoSearchResult
             /\ lookup_end' = "no_submit_control"
             /\ pc' = "driver_close"
             /\ UNCHANGED <<submits, trace>>
    /\ UNCHANGED <<input_file, endpoint_running, df, parser, index, processed_count,
                   found_count, inn_str, session, page_source, process_result,
                   output_file, retval, exit_code, status_requests, sessions_opened,
                   navigations, entered, outcomes, sessions, captured, pureVars>>

\* lines 145-170.  A button with the word, found by the wait or by the scan
\* of the buttons, or else a submit control found by find_element, is
\* clicked; the click may raise.  On a page with neither, find_element
\* raises NoSuchElementException: search_button is never falsy at line 163,
\* the branch that sends the Enter key is never taken, and the lookup ends
\* in the handler of line 198
Submit ==
    /\ pc = "find_button"
    /\ \E control \in SubmitControls :
          \/ /\ control # "none"
             /\ submits' = submits + 1
             /\ trace' = Stepped("submit")
             /\ pc' = "wait_results"
             /\ UNCHANGED <<search_result, lookup_end>>
          \/ /\ control # "none"
             /\ search_result' = NoSearchResult
             /\ lookup_end' = "interaction"
             /\ pc' = "driver_close"
             /\ UNCHANGED <<submits, trace>>
          \/ /\ control = "none"
             /\ search_result' = NoSearchResult
             /\ lookup_end' = "no_submit_control"
             /\ pc' = "driver_close"
             /\ UNCHANGED <<submits, trace>>
    /\ UNCHANGED <<input_file, endpoint_running, df, parser, index, processed_count,
                   found_count, inn_str, session, page_source, process_result,
                   output_file, retval, exit_code, status_requests, sessions_opened,
                   navigations, entered, outcomes, sessions, captured, pureVars>>

\* EC.any_of(presence of a table, presence of a div whose text has the
\* "dear user" phrase), lines 178-183: the XPath text() of a div is its
\* first string child
ResultsPresent(soup) ==
    \E p \in Range(Descendants(soup, <<>>)) :
        LET node == NodeAt(soup, p)
            IsText(k) == k.tag = "#text"
            strings == SelectSeq(node.kids, IsText)
        IN  \/ node.tag = "table"
            \/ /\ node.tag = "div"
               /\ strings # <<>>
               /\ HasDearUser(strings[1].text)

\* WaitResults that gives the lookup up when the wait times out
WaitResults_fail_on_timeout ==
    /\ pc = "wait_results"
    /\ \E page \in PageDocs :
          /\ page_source' = page
          /\ IF ResultsPresent(page)
             THEN /\ pc' = "parse_results"
                  /\ UNCHANGED <<search_result, lookup_end>>
             ELSE /\ search_result' = NoSearchResult
                  /\ lookup_end' = "interaction"
                  /\ pc' = "driver_close"
    /\ trace' = Stepped("wait")
    /\ UNCHANGED <<input_file, endpoint_running, df, parser, index, processed_count,
                   found_count, inn_str, session, process_result, output_file,
                   retval, exit_code, status_requests, sessions_opened, navigations,
                   entered, submits, outcomes, sessions, captured, pureVars>>

\* lines 172-186: the pause and the wait for a table or the banner.  The
\* page shows one of the documents; when it has neither a table nor the
\* banner the wait times out, which is only printed
WaitResults ==
    /\ pc = "wait_results"
    /\ page_source' \in PageDocs
    /\ trace' = Stepped("wait")
    /\ pc' = "parse_results"
    /\ UNCHANGED <<input_file, endpoint_running, df, parser, index, processed_count,
                   found_count, inn_str, session, search_result, process_result,
                   output_file, retval, exit_code, status_requests, sessions_opened,
                   navigations, entered, submits, lookup_end, outcomes, sessions,
                   captured, pureVars>>

\* line 194: parse_results(driver.page_source), or an exception while the
\* page source is fetched
ParsePageSource ==
    /\ pc = "parse_results"
    /\ \/ /\ captured' = CapturedMarkup(page_source)
          /\ search_result' = SomeResult(parse_results(page_source))
          /\ lookup_end' = "parsed"
          /\ trace' = Stepped("capture") \o <<[row |-> index, step |-> "extract"]>>
       \/ /\ search_result' = NoSearchResult
          /\ lookup_end' = "extraction"
          /\ UNCHANGED <<captured, trace>>
    /\ pc' = "driver_close"
    /\ UNCHANGED <<input_file, endpoint_running, df, parser, index, processed_count,
                   found_count, inn_str, session, page_source, process_result,
                   output_file, retval, exit_code, status_requests, sessions_opened,
                   navigations, entered, submits, outcomes, sessions, pureVars>>

\* the sessions after the attempt to close the last one
SessionsAfterClose(state) == [sessions EXCEPT ![Len(sessions)].state = state]

\* DriverClose that stops the endpoint's service with the session
DriverClose_stop_service ==
    /\ pc = "driver_close"
    /\ session' = "closed"
    /\ sessions' = SessionsAfterClose("closed")
    /\ endpoint_running' = FALSE
    /\ trace' = Stepped("close")
    /\ page_source' = Soup(<<>>)
    /\ pc' = "lookup_returned"
    /\ UNCHANGED <<input_file, df, parser, index, processed_count,
                   found_count, inn_str, search_result, process_result,
                   output_file, retval, exit_code, status_requests, sessions_opened,
                   navigations, entered, submits, lookup_end, outcomes, captured,
                   pureVars>>

\* lines 201-207: finally driver.close(), which closes the one window of
\* the session and with it the session; an exception of close() is
\* swallowed, and the session then stays as it was.  The endpoint is left
\* running.  The driver is dropped, and its page with it
DriverClose ==
    /\ pc = "driver_close"
    /\ \E state \in {"closed", "open"} :
          /\ session' = state
          /\ sessions' = SessionsAfterClose(state)
    /\ trace' = Stepped("close")
    /\ page_source' = Soup(<<>>)
    /\ pc' = "lookup_returned"
    /\ UNCHANGED <<input_file, endpoint_running, df, parser, index, processed_count,
                   found_count, inn_str, search_result, process_result,
                   output_file, retval, exit_code, status_requests, sessions_opened,
                   navigations, entered, submits, lookup_end, outcomes, captured,
                   pureVars>>

\* process_single_inn, lines 235-258: the record of the row, made from what
\* search_by_inn returned; the local inn_str ends with the call
LookupReturned ==
    /\ pc = "lookup_returned"
    /\ process_result' = RecordOf(search_result)
    /\ inn_str' = <<>>
    /\ trace' = Stepped("return")
    /\ pc' = "fill"
    /\ UNCHANGED <<input_file, endpoint_running, df, parser, index, processed_count,
                   found_count, session, page_source, search_result, output_file,
                   retval, exit_code,
                   status_requests, sessions_opened, navigations, entered, submits,
                   lookup_end, outcomes, sessions, captured, pureVars>>

\* the ways a lookup of a valid identifier fails
LookupFailures ==
    {"unreachable", "no_session", "setup_error", "navigation", "no_search_field",
     "interaction", "no_submit_control", "extraction"}

\* the loop body that gives the run up after a failed lookup
FillRow_abort_on_failure ==
    /\ pc = "fill"
    /\ IF lookup_end \in LookupFailures
       THEN /\ pc' = "returned" /\ retval' = "False"
            /\ UNCHANGED <<df, index, processed_count, found_count, outcomes>>
       ELSE /\ df' = [df EXCEPT !.rows[index] =
                        FilledRow(@, process_result, @[input_columns.contract_date])]
            /\ found_count' = found_count + (IF process_result.smsp_robot = DA THEN 1 ELSE 0)
            /\ processed_count' = processed_count + 1
            /\ index' = index + 1
            /\ outcomes' = Append(outcomes, [row |-> index, kind |-> lookup_end,
                                             result |-> search_result,
                                             record |-> process_result,
                                             captured |-> captured])
            /\ pc' = "row" /\ UNCHANGED retval
    /\ search_result' = NoSearchResult
    /\ UNCHANGED <<input_file, endpoint_running, parser, inn_str, session, page_source,
                   process_result, output_file, exit_code,
                   status_requests, sessions_opened, navigations, entered, submits,
                   lookup_end, driverVars, pureVars>>

\* the loop body that also writes the output file after every row
FillRow_saves_each_row ==
    /\ pc = "fill"
    /\ df' = [df EXCEPT !.rows[index] =
                FilledRow(@, process_result, @[input_columns.contract_date])]
    /\ found_count' = found_count + (IF process_result.smsp_robot = DA THEN 1 ELSE 0)
    /\ processed_count' = processed_count + 1
    /\ index' = index + 1
    /\ outcomes' = Append(outcomes, [row |-> index, kind |-> lookup_end,
                                     result |-> search_result,
                                     record |-> process_result,
                                     captured |-> captured])
    /\ search_result' = NoSearchResult
    /\ output_file' = [written |-> TRUE, path |-> OutputPath(input_file.path),
                       df |-> df']
    /\ pc' = "row"
    /\ UNCHANGED <<input_file, endpoint_running, parser, inn_str, session, page_source,
                   process_result, retval, exit_code,
                   status_requests, sessions_opened, navigations, entered, submits,
                   lookup_end, driverVars, pureVars>>

\* process_excel_file, lines 304-331: the five cells of the row, the counters
FillRow ==
    /\ pc = "fill"
    /\ df' = [df EXCEPT !.rows[index] =
                FilledRow(@, process_result, @[input_columns.contract_date])]
    /\ found_count' = found_count + (IF process_result.smsp_robot = DA THEN 1 ELSE 0)
    /\ processed_count' = processed_count + 1
    /\ index' = index + 1
    /\ outcomes' = Append(outcomes, [row |-> index, kind |-> lookup_end,
                                     result |-> search_result,
                                     record |-> process_result,
                                     captured |-> captured])
    /\ search_result' = NoSearchResult
    /\ pc' = "row"
    /\ UNCHANGED <<input_file, endpoint_running, parser, inn_str, session, page_source,
                   process_result, output_file, retval, exit_code,
                   status_requests, sessions_opened, navigations, entered, submits,
                   lookup_end, driverVars, pureVars>>

\* lines 339-351: df.to_excel(output_file), or an exception
Save ==
    /\ pc = "save"
    /\ \/ /\ output_file' = [written |-> TRUE, path |-> OutputPath(input_file.path),
                             df |-> df]
          /\ retval' = "True"
       \/ /\ retval' = "False"
          /\ UNCHANGED output_file
    /\ pc' = "returned"
    /\ UNCHANGED <<input_file, endpoint_running, df, parser, index, processed_count,
                   found_count, inn_str, session, page_source, search_result,
                   process_result, exit_code, historyVars, pureVars>>

\* main, lines 387-394: sys.exit(1) unless process_excel_file succeeded
Exit ==
    /\ pc = "returned"
    /\ exit_code' = IF retval = "True" THEN 0 ELSE 1
    /\ pc' = "exit"
    /\ UNCHANGED <<input_file, endpoint_running, df, parser, index, processed_count,
                   found_count, inn_str, session, page_source, search_result,
                   process_result, output_file, retval, historyVars, pureVars>>

Next ==
    \/ ValidateExcelFile \/ LoadExcelFile \/ ValidateColumns \/ AddOutputColumns
    \/ InitParser \/ NextRow \/ SearchByInn \/ SetupChromeDriver \/ DriverGet
    \/ LocateSearchInput \/ EnterInn \/ Submit \/ WaitResults \/ ParsePageSource
    \/ DriverClose \/ LookupReturned \/ FillRow \/ Save \/ Exit

Spec == Init /\ [][Next]_vars


---------------------------------------------------------------------------
(* Properties of the run *)

\* the steps of a lookup that talk to the endpoint or the registry
NetworkSteps ==
    {"setup_chrome_driver", "driver_get", "locate_input", "send_keys",
     "find_button", "wait_results", "parse_results", "driver_close"}

\* the rows processed so far whose lookup went as far as the endpoint
RowsAtEndpoint == {k \in 1..Len(outcomes) : outcomes[k].kind \notin {"empty", "invalid"}}

\* C2: an identifier that is empty or fails validate_inn never gets as far
\* as the endpoint, a session or the registry page, and every value typed
\* into the search field is a string of exactly 10 or 12 digits.
C2_OnlyValidIdentifiersSent ==
    /\ pc \in NetworkSteps =>
          LET inn_value == df.rows[index][input_columns.inn]
          IN  /\ ~IsEmptyInn(inn_value)
              /\ validate_inn(StrStrip(PyStr(inn_value))).accepted
    /\ pc \in {"row", "save", "returned", "exit"} =>
          /\ status_requests = Cardinality(RowsAtEndpoint)
          /\ sessions_opened <= status_requests
    /\ \A i \in 1..Len(entered) : TenOrTwelveDigits(entered[i])

\* C3: in the written dataset the exclusion date of a row is non-empty only
\* if the row's found flag is "da" and its category is "Ne yavlyaetsya
\* subektom MSP".
C3_ExclusionOnlyForExcluded ==
    output_file.written =>
        \A i \in 1..Len(output_file.df.rows) :
            LET row == output_file.df.rows[i]
            IN  row[output_columns.exclusion_date_robot] # <<>> =>
                    /\ row[output_columns.smsp_robot] = DA
                    /\ row[output_columns.category_robot] = NotSME

\* C4: in the written dataset every row whose found flag is "net" has an
\* empty category, inclusion date, exclusion date and discrepancy flag.
C4_NotFoundRowsBlank ==
    output_file.written =>
        \A i \in 1..Len(output_file.df.rows) :
            LET row == output_file.df.rows[i]
            IN  row[output_columns.smsp_robot] = NET =>
                    /\ row[output_columns.category_robot] = <<>>
                    /\ row[output_columns.inclusion_date_robot] = <<>>
                    /\ row[output_columns.exclusion_date_robot] = <<>>
                    /\ row[output_columns.date_discrepancy_robot] = <<>>

BadInput ==
    \/ ~input_file.exists
    \/ ~HasExcelSuffix(input_file.path)
    \/ ~input_file.loadable
    \/ ~(RequiredColumns \subseteq input_file.sheet.columns)

\* C10: with such an input process_excel_file returns failure before the
\* parser is initialised: no session, no row processed, no output written.
C10_BadInputFailsEarly ==
    BadInput =>
        /\ pc \in {"process_excel_file", "load_excel_file", "validate_columns",
                   "returned", "exit"}
        /\ parser = "none"
        /\ status_requests = 0 /\ sessions_opened = 0 /\ session = "none"
        /\ processed_count = 0 /\ outcomes = <<>>
        /\ ~output_file.written
        /\ pc \in {"returned", "exit"} => retval = "False"
        /\ pc = "exit" => exit_code = 1

\* a run on a two-row sheet without the contract-date column has ended
C10_Witness ==
    /\ pc = "exit"
    /\ input_file.exists /\ input_file.loadable
    /\ input_file.sheet.columns = {input_columns.inn}
    /\ Len(input_file.sheet.rows) = 2
    /\ retval = "False"
    /\ exit_code = 1

\* the sessions the endpoint holds open
OpenSessions == {k \in 1..Len(sessions) : sessions[k].state = "open"}

\* states in which no lookup is under way
BetweenLookups == {"lookup_returned", "fill", "row", "save", "returned", "exit"}

\* C11: rows are processed strictly one after another.  At most one session
\* is open in any state; the steps of the rows follow each other in the
\* order of the rows; a later session belongs to a later row and is opened
\* only when every earlier session is closed; no row has two sessions.
C11_OneSessionAtATime ==
    /\ Cardinality(OpenSessions) <= 1
    /\ \A j, k \in 1..Len(trace) : j < k => trace[j].row <= trace[k].row
    /\ \A j, k \in 1..Len(sessions) :
          j < k => /\ sessions[j].row < sessions[k].row
                   /\ sessions[j].state = "closed"

\* C12: a lookup never returns leaving a session open: whenever no lookup
\* is under way, every session that was opened is closed.
C12_SessionClosedOnReturn ==
    pc \in BetweenLookups => OpenSessions = {}

\* C13: no step of the run terminates the endpoint, and a step closes no
\* other session than the one of the lookup at hand, in its teardown.
C13_EndpointOutlivesLookups ==
    [][ /\ endpoint_running' = endpoint_running
        /\ Len(sessions') >= Len(sessions)
        /\ \A k \in 1..Len(sessions) :
              sessions'[k] # sessions[k] =>
                  /\ pc = "driver_close"
                  /\ k = Len(sessions)
                  /\ sessions[k].row = index
                  /\ sessions'[k].row = sessions[k].row ]_vars

\* a run of two lookups has ended, the first failed after its session was
\* opened, the second captured a page; both sessions are closed and the
\* endpoint is running
C13_Witness ==
    /\ pc = "exit"
    /\ endpoint_running
    /\ Len(sessions) = 2
    /\ OpenSessions = {}
    /\ outcomes[1].kind = "navigation"
    /\ outcomes[2].kind = "parsed"

\* what search_by_inn returned for a processed row: the record extracted
\* from the captured markup, or nothing
LookupRecord(outcome) == outcome.result

\* the cell of a column of a row of the input sheet; a column the sheet
\* does not have is added empty
CellBefore(k, column) ==
    IF column \in input_file.sheet.columns THEN input_file.sheet.rows[k][column]
    ELSE <<>>

\* the loop over the rows is between two rows: before the first, after one
\* that has just been filled, or after the last
AfterRow == pc = "row"

\* row is the k-th row as the k-th lookup requires it: after a lookup that
\* returned found = true it has the found flag "da", the category and the
\* inclusion date of the lookup record as they are, and the discrepancy
\* flag compare_dates gives for the contract date of that row and the
\* extracted inclusion date; after any other lookup the found flag is "net"
\* and the discrepancy cell is as the input had it
RowMerged(k, row) ==
    \A lookup \in {LookupRecord(outcomes[k])} :
        IF ~lookup.none /\ lookup.result.found
        THEN /\ row[output_columns.smsp_robot] = DA
             /\ row[output_columns.category_robot] = lookup.result.category
             /\ row[output_columns.inclusion_date_robot] = lookup.result.inclusion_date
             /\ row[output_columns.date_discrepancy_robot] =
                    compare_dates(CellBefore(k, input_columns.contract_date),
                                  StrValue(lookup.result.inclusion_date))
        ELSE /\ row[output_columns.smsp_robot] = NET
             /\ row[output_columns.date_discrepancy_robot] =
                    CellBefore(k, output_columns.date_discrepancy_robot)

\* C14: between two rows every row processed so far is merged from its
\* lookup: found flag "da", category and inclusion date copied, discrepancy
\* flag from compare_dates, when the lookup returned found = true, and no
\* discrepancy flag computed otherwise; the output file is written with
\* the rows as they are after the last one.
C14_FoundRowsMerged ==
    /\ AfterRow => \A k \in 1..Len(outcomes) : RowMerged(k, df.rows[k])
    /\ (pc = "returned" /\ output_file.written) =>
          /\ output_file.df = df
          /\ Len(outcomes) = Len(df.rows)

\* the output of a two-row sheet has been written: row 1, contract of
\* 01.01.2015, was found as excluded, with a discrepancy; row 2, contract
\* of 10.07.2020, was found without one
C14_Witness ==
    /\ output_file.written
    /\ Len(output_file.df.rows) = 2
    /\ output_file.df.rows[1][output_columns.smsp_robot] = DA
    /\ output_file.df.rows[1][output_columns.category_robot] = NotSME
    /\ output_file.df.rows[1][output_columns.inclusion_date_robot] = Date2016
    /\ output_file.df.rows[1][output_columns.exclusion_date_robot] = Date2020
    /\ output_file.df.rows[1][output_columns.date_discrepancy_robot] = DA
    /\ output_file.df.rows[2][output_columns.smsp_robot] = DA
    /\ output_file.df.rows[2][output_columns.date_discrepancy_robot] = NET

\* the five derived cells as the row's contract date and the record of its
\* lookup alone determine them
DerivedCells(contract_date, record) ==
    FilledRow([c \in OutputColumnNames |-> <<>>], record, contract_date)

\* C15: the written dataset has the rows of the input, in their order; its
\* columns are those of the input and the five derived ones; every
\* original column has its input value in every row; the derived cells of
\* a row are determined by the contract date of that row and the record of
\* the lookup of that row's identifier.
C15_OnlyDerivedColumnsChange ==
    output_file.written =>
        LET sheet == input_file.sheet
            out == output_file.df
        IN  /\ Len(out.rows) = Len(sheet.rows)
            /\ out.columns = sheet.columns \cup OutputColumnNames
            /\ \A i \in 1..Len(sheet.rows) :
                  /\ \A c \in sheet.columns \ OutputColumnNames :
                        out.rows[i][c] = sheet.rows[i][c]
                  /\ \A c \in OutputColumnNames :
                        out.rows[i][c] =
                            DerivedCells(sheet.rows[i][input_columns.contract_date],
                                         RecordOf(LookupRecord(outcomes[i])))[c]

\* how often the lookup of row r has taken a step
Count(r, step) ==
    Cardinality({k \in 1..Len(trace) : trace[k] = [row |-> r, step |-> step]})

\* C16: nothing is retried.  When a row is done, search_by_inn has been
\* called at most once for every row, the endpoint asked for its status at
\* most once, at most one session opened and the form submitted at most
\* once; the steps never go back to an earlier row; a row whose lookup
\* failed has the default record and the found flag "net".
C16_NothingRetried ==
    /\ AfterRow =>
          /\ \A r \in 1..Len(df.rows) :
                \A step \in {"lookup", "status", "open", "submit"} : Count(r, step) <= 1
          /\ \A k \in 1..(Len(trace) - 1) : trace[k].row <= trace[k + 1].row
    /\ \A k \in 1..Len(outcomes) :
          outcomes[k].kind \in LookupFailures =>
              /\ outcomes[k].record = NotFoundRecord
              /\ df.rows[k][output_columns.smsp_robot] = NET
    /\ pc = "row" => Len(outcomes) = index - 1

\* a run has ended in which the click on the search button raised in the
\* lookup of row 1, which was not repeated, and row 2 was looked up
C16_Witness ==
    /\ pc = "exit"
    /\ Len(outcomes) = 2
    /\ outcomes[1].kind = "interaction"
    /\ Count(1, "lookup") = 1
    /\ Count(1, "submit") = 0
    /\ outcomes[2].kind = "parsed"
    /\ Count(2, "submit") = 1

\* C17: the absence of a submit control never makes a lookup fail: no
\* lookup ends because the page had neither a search button nor a submit
\* control.
C17_EnterWhenNoSubmitControl ==
    lookup_end # "no_submit_control"

\* the steps of the driver, in the order of a lookup that goes all the way
DriverOrder ==
    <<"open", "navigate", "locate", "enter", "submit", "wait", "capture", "extract">>

\* the driver's steps the lookup of row r has taken so far
DriverSteps(r) ==
    LET Mine(e) == e.row = r /\ e.step \in Range(DriverOrder)
        events == SelectSeq(trace, Mine)
    IN  [k \in 1..Len(events) |-> events[k].step]

IsPrefix(s, t) == Len(s) <= Len(t) /\ s = SubSeq(t, 1, Len(s))

\* C18: between two rows the steps of every lookup so far are a beginning of
\* the driver's order, so
\* that the identifier is entered only after the entry control was located
\* and markup is captured only after the submission; every value entered
\* belongs to an "enter" step; a lookup that located no entry control has
\* opened its session and navigated and nothing more, captured nothing, and
\* returned the failure outcome.
C18_StepsInOrder ==
    /\ AfterRow =>
          /\ \A r \in 1..Len(df.rows) : IsPrefix(DriverSteps(r), DriverOrder)
          /\ Len(entered) = Cardinality({k \in 1..Len(trace) : trace[k].step = "enter"})
          /\ submits = Cardinality({k \in 1..Len(trace) : trace[k].step = "submit"})
    /\ (pc \in {"driver_close", "lookup_returned"} /\ lookup_end = "no_search_field") =>
          /\ DriverSteps(index) = <<"open", "navigate">>
          /\ search_result = NoSearchResult
          /\ captured = NothingCaptured
    /\ \A k \in 1..Len(outcomes) :
          outcomes[k].kind = "no_search_field" =>
              /\ DriverSteps(k) = <<"open", "navigate">>
              /\ ~outcomes[k].captured.some
              /\ outcomes[k].record = NotFoundRecord

\* a run has ended in which the lookup of row 1 found no entry control and
\* the lookup of row 2 took all the steps
C18_Witness ==
    /\ pc = "exit"
    /\ Len(outcomes) = 2
    /\ outcomes[1].kind = "no_search_field"
    /\ outcomes[2].kind = "parsed"
    /\ DriverSteps(2) = DriverOrder

\* the lookup at hand has waited for the results, and done nothing since
\* but capture the markup and extract the record
Waited ==
    /\ trace # <<>>
    /\ trace[Len(trace)] \in {[row |-> index, step |-> "wait"],
                              [row |-> index, step |-> "extract"]}

\* C19: when the wait ends with neither a table nor the banner on the page,
\* the lookup goes on: the markup present is captured and handed to
\* parse_results, whose record is what the lookup returns and what the row
\* is filled from; only an exception while the page source is fetched can
\* still fail it.
C19_TimeoutDoesNotFail ==
    /\ (pc = "driver_close" /\ Waited /\ ~ResultsPresent(page_source)) =>
          /\ lookup_end \in {"parsed", "extraction"}
          /\ lookup_end = "parsed" =>
                /\ captured = CapturedMarkup(page_source)
                /\ search_result = SomeResult(parse_results(page_source))
    /\ (pc = "fill" /\ captured.some) =>
          /\ lookup_end = "parsed"
          /\ ~ResultsPresent(captured.page) =>
                /\ search_result = SomeResult(parse_results(captured.page))
                /\ process_result = RecordOf(search_result)

\* a lookup whose wait timed out has returned the record parse_results
\* gives for the page without table and banner
C19_Witness ==
    /\ pc = "fill"
    /\ captured.some
    /\ ~ResultsPresent(captured.page)
    /\ lookup_end = "parsed"
    /\ process_result = NotFoundRecord


\* the texts that stand for "no exclusion date", in every case of letters
\* the pages use
IsPlaceholder(text) ==
    text \in {<<"ne ukazana">>, <<"Ne ukazana">>, <<"ne najdena">>, <<"(pusto)">>,
              <<"pusto">>, <<"PUSTO">>}

\* what the exclusion-date cell is to hold for an extracted text
WrittenExclusion(text) ==
    IF text = <<>> \/ StrStrip(text) = <<>> \/ IsPlaceholder(text) THEN <<>> ELSE text

\* texts an extracted record may carry as its exclusion date
ExclusionTexts ==
    {<<>>, <<" ">>, <<" ", LF>>, <<"ne ukazana">>, <<"Ne ukazana">>, <<"ne najdena">>,
     <<"(pusto)">>, <<"pusto">>, <<"PUSTO">>, <<"-">>, <<"pusto", " ">>, Date2020, Date2021}

\* C26: between two rows the exclusion-date cell of every row processed so
\* far is empty when the exclusion date of the record of its lookup is
\* empty, blank or one of the placeholders 'ne ukazana', 'ne najdena',
\* '(pusto)', 'pusto' in any case of letters, and is that text unchanged
\* otherwise; when the loop has ended the same holds of the cell its body
\* writes for any other text a record may carry.
C26_ExclusionPlaceholderBlanked ==
    /\ AfterRow =>
          \A k \in 1..Len(outcomes) :
              df.rows[k][output_columns.exclusion_date_robot] =
                  WrittenExclusion(outcomes[k].record.exclusion_date_robot)
    /\ pc = "save" =>
          \A text \in ExclusionTexts :
              DerivedCells(NanValue, [NotFoundRecord EXCEPT !.exclusion_date_robot = text])
                  [output_columns.exclusion_date_robot] = WrittenExclusion(text)

\* two rows have been processed: the page of the first gave the
\* placeholder 'Ne ukazana' and its cell is empty, the page of the second
\* gave 10.07.2020 and its cell holds that text
C26_Witness ==
    /\ AfterRow
    /\ Len(outcomes) = 2
    /\ outcomes[1].record.exclusion_date_robot = <<"Ne ukazana">>
    /\ df.rows[1][output_columns.exclusion_date_robot] = <<>>
    /\ outcomes[2].record.exclusion_date_robot = Date2020
    /\ df.rows[2][output_columns.exclusion_date_robot] = Date2020

\* C27: the output file is written at most once in a run, by the step
\* that follows the loop over the rows: when it is written nothing had
\* been written before, every row has been processed, its content is the
\* dataset as the last row left it and its path is the input path with
\* '_processed' appended to the stem; this step either writes the file and
\* returns success or writes nothing and returns failure; the run returns
\* success only with the file written, and exits with 0 only then.
C27_SavedOnceAtTheEnd ==
    [][ /\ output_file' # output_file =>
              /\ pc = "save" /\ pc' = "returned"
              /\ output_file = NothingWritten
              /\ index > Len(df.rows)
              /\ processed_count = Len(df.rows)
              /\ Len(outcomes) = Len(df.rows)
              /\ df' = df
              /\ output_file' = [written |-> TRUE,
                                 path |-> <<input_file.path[1], "_processed",
                                            input_file.path[2]>>,
                                 df |-> df]
              /\ retval' = "True"
        /\ (pc = "save" /\ pc' # pc /\ output_file' = output_file) => retval' = "False"
        /\ retval' = "True" => output_file'.written
        /\ exit_code' = 0 => output_file'.written ]_vars

\* the run over a sheet of two rows has written
\* companies_processed.xlsx once, with both rows, and exited with 0
C27_Witness ==
    /\ pc = "exit"
    /\ exit_code = 0
    /\ output_file.written
    /\ output_file.path = <<"companies", "_processed", ".xlsx">>
    /\ Len(output_file.df.rows) = 2
    /\ processed_count = 2
    /\ output_file.df = df

---------------------------------------------------------------------------
(* SpecPlaywright: search_rmsp_playwright of rmsp_playwright.py called on  *)
(* one identifier, the registry answering with one document; then          *)
(* RMSPParser.search_by_inn on the same identifier and document.  fn_pc is *)
(* the position in the lookup; the steps are recorded under row 0.         *)

\* identifiers: ten digits, ten digits with a space and a hyphen, a
\* malformed one, the empty one
PwIdentifiers ==
    { InnDigits,
      <<"7", "7", "0", "7", " ", "0", "8", "3", "8", "9", "-", "3">>,
      <<"1", "2", " ", "3", "4", "5">>,
      <<>> }

\* the record of a lookup that did not get to the extractor
PwFailure(message) == [EmptySearchResult EXCEPT !.message = message]

\* the variables search_rmsp_playwright leaves alone
pwFrame == <<inn_arg, document, contract_arg, inclusion_arg, cmp_ret, parse_ret,
             input_file, endpoint_running, pc, df, parser, index, processed_count,
             found_count, inn_str, page_source, process_result, output_file, retval,
             exit_code, status_requests, sessions_opened, navigations, submits,
             outcomes>>

InitPlaywright ==
    /\ inn_arg \in PwIdentifiers
    /\ document \in PageDocs
    /\ parse_ret = EmptyResult
    /\ search_ret = EmptySearchResult
    /\ fn_pc = "pw_call"
    /\ inn_ret = InnRejected
    /\ DatesIdle /\ BatchIdle

\* rmsp_playwright.py lines 30-37: the validator's gate; a rejected
\* identifier is answered with a record, not with None
PwValidate ==
    /\ fn_pc = "pw_call"
    /\ inn_ret' = validate_inn(inn_arg)
    /\ trace' = Stepped("lookup")
    /\ IF InnFalsy(inn_ret')
       THEN /\ search_ret' = PwFailure(<<"Nekorrektnyj INN">>)
            /\ lookup_end' = "invalid"
            /\ fn_pc' = "pw_returned"
       ELSE /\ fn_pc' = "pw_launch"
            /\ UNCHANGED <<search_ret, lookup_end>>
    /\ UNCHANGED <<session, sessions, captured, entered, search_result, pwFrame>>

\* lines 45-51: the browser is launched and a page opened, or an exception
PwLaunch ==
    /\ fn_pc = "pw_launch"
    /\ \/ /\ session' = "open"
          /\ sessions' = Append(sessions, [row |-> index, state |-> "open"])
          /\ trace' = Stepped("open")
          /\ fn_pc' = "pw_goto"
          /\ UNCHANGED lookup_end
       \/ /\ lookup_end' = "no_session"
          /\ fn_pc' = "pw_except"
          /\ UNCHANGED <<session, sessions, trace>>
    /\ UNCHANGED <<inn_ret, search_ret, captured, entered, search_result, pwFrame>>

\* lines 53-58: page.goto, or an exception
PwGoto ==
    /\ fn_pc = "pw_goto"
    /\ \/ /\ trace' = Stepped("navigate")
          /\ fn_pc' = "pw_locate"
          /\ UNCHANGED lookup_end
       \/ /\ lookup_end' = "navigation"
          /\ fn_pc' = "pw_except"
          /\ UNCHANGED trace
    /\ UNCHANGED <<inn_ret, search_ret, session, sessions, captured, entered,
                   search_result, pwFrame>>

\* lines 60-85: the first selector that finds an input; when none does the
\* browser is closed and the failure record returned
PwLocate ==
    /\ fn_pc = "pw_locate"
    /\ \/ /\ trace' = Stepped("locate")
          /\ fn_pc' = "pw_fill"
          /\ UNCHANGED <<search_ret, lookup_end, session, sessions>>
       \/ /\ session' = "closed"
          /\ sessions' = SessionsAfterClose("closed")
          /\ trace' = Stepped("close")
          /\ search_ret' = PwFailure(<<"Ne najdeno pole dlya vvoda INN">>)
          /\ lookup_end' = "no_search_field"
          /\ fn_pc' = "pw_returned"
    /\ UNCHANGED <<inn_ret, captured, entered, search_result, pwFrame>>

\* lines 87-91: click, clear, fill(validated_inn)
PwFill ==
    /\ fn_pc = "pw_fill"
    /\ entered' = Append(entered, inn_ret.inn)
    /\ trace' = Stepped("enter")
    /\ fn_pc' = "pw_submit"
    /\ UNCHANGED <<inn_ret, search_ret, session, sessions, captured, lookup_end,
                   search_result, pwFrame>>

\* lines 93-117: the first candidate that is found and clicked; when none
\* is, the Enter key is pressed on the input; the key press may raise
PwSubmit ==
    /\ fn_pc = "pw_submit"
    /\ \E control \in SubmitControls :
          \/ /\ trace' = Stepped("submit")
             /\ fn_pc' = "pw_wait"
             /\ UNCHANGED lookup_end
          \/ /\ control = "none"
             /\ lookup_end' = "interaction"
             /\ fn_pc' = "pw_except"
             /\ UNCHANGED trace
    /\ UNCHANGED <<inn_ret, search_ret, session, sessions, captured, entered,
                   search_result, pwFrame>>

\* lines 119-127: the pause and the wait for a table or the banner, whose
\* timeout is passed over
PwWait ==
    /\ fn_pc = "pw_wait"
    /\ trace' = Stepped("wait")
    /\ fn_pc' = "pw_content"
    /\ UNCHANGED <<inn_ret, search_ret, session, sessions, captured, entered,
                   lookup_end, search_result, pwFrame>>

\* lines 129-135: page.content(), browser.close(), parse_search_results; or
\* an exception while the content is fetched
PwCapture ==
    /\ fn_pc = "pw_content"
    /\ \/ /\ captured' = CapturedMarkup(document)
          /\ session' = "closed"
          /\ sessions' = SessionsAfterClose("closed")
          /\ trace' = trace \o <<[row |-> index, step |-> "capture"],
                                 [row |-> index, step |-> "close"],
                                 [row |-> index, step |-> "extract"]>>
          /\ search_ret' = parse_search_results(document, inn_ret.inn)
          /\ lookup_end' = "parsed"
          /\ fn_pc' = "pw_returned"
       \/ /\ lookup_end' = "extraction"
          /\ fn_pc' = "pw_except"
          /\ UNCHANGED <<captured, session, sessions, trace, search_ret>>
    /\ UNCHANGED <<inn_ret, entered, search_result, pwFrame>>

\* lines 137-149: the handler closes the browser if there is one (what
\* close() raises is passed over, and leaving the async with block ends
\* the browser) and returns the failure record
PwExcept ==
    /\ fn_pc = "pw_except"
    /\ IF session = "open"
       THEN /\ session' = "closed"
            /\ sessions' = SessionsAfterClose("closed")
            /\ trace' = Stepped("close")
       ELSE UNCHANGED <<session, sessions, trace>>
    /\ search_ret' = PwFailure(<<"Oshibka Playwright">>)
    /\ fn_pc' = "pw_returned"
    /\ UNCHANGED <<inn_ret, captured, entered, lookup_end, search_result, pwFrame>>

\* RMSPParser.search_by_inn, rmsp_parser.py lines 418-439, on the same
\* identifier, its driver showing the same document: None for a rejected
\* identifier, else what parse_results makes of the document
RmspParserLookup ==
    /\ fn_pc = "pw_returned"
    /\ search_result' =
          IF InnFalsy(validate_inn(inn_arg)) THEN NoSearchResult
          ELSE SomeResult(parse_results(document))
    /\ fn_pc' = "done"
    /\ UNCHANGED <<inn_ret, search_ret, session, sessions, trace, captured, entered,
                   lookup_end, pwFrame>>

NextPlaywright ==
    \/ PwValidate \/ PwLaunch \/ PwGoto \/ PwLocate \/ PwFill \/ PwSubmit
    \/ PwWait \/ PwCapture \/ PwExcept \/ RmspParserLookup

SpecPlaywright == InitPlaywright /\ [][NextPlaywright]_vars

\* C20: the transports are interchangeable.  For every identifier and
\* document for which the Playwright lookup returned from its validator or
\* from its extractor, RMSPParser.search_by_inn returns a record as the
\* Playwright lookup does (a rejected identifier is signalled the same
\* way), with the same found flag and, when found, the same category and
\* inclusion date.
C20_TransportsAgree ==
    (fn_pc = "done" /\ lookup_end \in {"invalid", "parsed"}) =>
        /\ ~search_result.none
        /\ search_result.result.found = search_ret.found
        /\ search_ret.found =>
              /\ search_result.result.category = search_ret.category
              /\ search_result.result.inclusion_date = search_ret.inclusion_date

\* The Playwright lookup never returns with its browser open.
Pw_SessionClosedOnReturn ==
    fn_pc \in {"pw_returned", "done"} => OpenSessions = {}

\* The Playwright lookup takes the driver's steps in their order, opens one
\* browser and submits once; without an entry control it enters, submits
\* and captures nothing.
Pw_StepsInOrder ==
    /\ IsPrefix(DriverSteps(index), DriverOrder)
    /\ Count(index, "open") <= 1 /\ Count(index, "submit") <= 1
    /\ lookup_end = "no_search_field" =>
          /\ DriverSteps(index) = <<"open", "navigate">>
          /\ entered = <<>> /\ captured = NothingCaptured

\* The Playwright lookup does not fail for want of a submit control or of
\* results on the page: once the identifier is entered, only an exception of
\* the key press or of page.content() keeps it from the extractor, whose
\* record it returns.
Pw_SubmitAndTimeoutDoNotFail ==
    /\ lookup_end \notin {"no_submit_control"}
    /\ (fn_pc \in {"pw_returned", "done"} /\ captured.some) =>
          /\ lookup_end = "parsed"
          /\ search_ret = parse_search_results(captured.page, inn_ret.inn)
====
